---- MODULE Spec2Model ----
(***************************************************************************)
(* The gateway's rate limiter (pkg/middleware, RateLimiter): a global      *)
(* token bucket and one token bucket per client IP, refilled lazily on     *)
(* every Allow, and a janitor goroutine that sweeps the per-client map.    *)
(*                                                                         *)
(* Time is counted in clock ticks, TicksPerSec ticks to the second.        *)
(* A bucket's tokens field holds the float64 of the code as an exact       *)
(* fixed-point number, in units of 1/TicksPerSec token, so that            *)
(* elapsed.Seconds() * rate is the integer elapsedTicks * rate and the     *)
(* literal 1 of the code is One.  Rates are whole tokens per second.       *)
(* Rounding of float64 arithmetic is not modelled.                         *)
(***************************************************************************)
EXTENDS Integers, Sequences, FiniteSets, TLC

VARIABLES
    clock,          \* time.Now(), in ticks since construction
    ipLimits,       \* RateLimiter.ipLimits: map from client IP to its bucket
    globalBucket,   \* RateLimiter.globalBucket
    ipRate,         \* RateLimiter.ipRate
    ipBurst,        \* RateLimiter.ipBurst
    globalRate,     \* RateLimiter.globalRate
    globalBurst,    \* RateLimiter.globalBurst
    cleanupEvery,   \* RateLimiter.cleanupEvery, in ticks
    tickerNext,     \* the time at which the janitor's ticker delivers its next tick
    mu,             \* RateLimiter.mu: "free" or the goroutine holding it
    pc,             \* per goroutine: where it stands in Allow / cleanup
    arg,            \* per request goroutine: the ip argument of its Allow call
    now,            \* per goroutine: the local variable now
    ret,            \* per request goroutine: the return statement its last
                    \* Allow call left by, "none" before its first
    log,            \* history: the Allow calls made so far, in the order of their
                    \* critical sections: [ip, at, global, out, solo]
    solo,           \* history: per client, the limiter of a second run that is
                    \* given the same clock and sweeps but only that client's calls
    sweptAt,        \* history: the time of the janitor's latest sweep, -1 once the
                    \* clock has moved on from it
    serial,         \* history: the limiter of a run that makes each call and each
                    \* sweep in one piece, in the order the lock was acquired
    unswept,        \* history: the limiter of a second run that is given the same
                    \* clock and calls and whose janitor never sweeps
    \* the user service (authService, authRepository, JWTAuth)
    users,          \* table users: per user, the columns refresh_token and
                    \* refresh_token_exp
    blacklist,      \* Redis: the keys "blacklist:<token>", each with the time its
                    \* TTL ends
    minted,         \* how many refresh tokens GenerateRandomString has produced
    issued,         \* the access tokens GenerateToken has signed
    refreshing,     \* per session: the RefreshToken call in progress, between its
                    \* lookup and its store
    authLog,        \* history: the calls of the user service, in order
    refreshed,      \* history: the RefreshToken calls that returned success: the
                    \* token presented, whether the new one was stored, and
                    \* how many calls had been made by then
    \* the category service (categoryService, categoryRepository)
    categories,     \* table categories: id -> [name, parent]
    redis,          \* Redis: the keys "category:<id>" and "category:name:<name>",
                    \* each with the category stored under it
    work,           \* per worker: the handler it runs, its position and locals
    catLog,         \* history: the updates that returned and the reads the cache
                    \* answered, in order
    \* the gateway's middleware chain (RateLimiter.Middleware)
    inflight,       \* per request goroutine: the request it is handling, past
                    \* its call of Allow
    responses,      \* history: the requests answered, in order
    \* the book service (bookRepository)
    books,          \* table books: id -> the row's contents
    bookCategories, \* table book_categories: the pairs <<book id, category id>>
    tx,             \* the Update in progress: its position, its argument and
                    \* the uncommitted writes of its transaction
    bookLog         \* history: the Updates that returned, in order

rlVars == <<ipLimits, globalBucket, ipRate, ipBurst, globalRate, globalBurst, cleanupEvery>>
goVars == <<mu, pc, arg, now, ret>>
histVars == <<log, solo, sweptAt, serial, unswept>>
limiterVars == <<rlVars, tickerNext, goVars, histVars>>
authVars == <<users, blacklist, minted, issued, refreshing, authLog, refreshed>>
catVars == <<categories, redis, work, catLog>>
gwVars == <<inflight, responses>>
bookVars == <<books, bookCategories, tx, bookLog>>
vars == <<clock, limiterVars, authVars, catVars, gwVars, bookVars>>

----------------------------------------------------------------------------
(* Bounds of the model *)

\* clock ticks to the second: the resolution of the modelled clock
TicksPerSec == 2
\* how many single ticks the clock may advance within one janitor period
MaxTicks == 2
\* how many whole janitor periods the clock may advance
MaxPeriods == 1

\* how many Allow calls are made
MaxCalls == 3

\* how many Allow calls the request goroutines make
MaxMutexCalls == 2
\* how many single ticks the clock may advance within one janitor period while
\* the goroutines run
MaxMutexTicks == 1

\* how many calls the user service is given
MaxAuthOps == 3
\* the hours by which the clock advances between calls of the user service,
\* and how many times it does
AuthStepHours == 12
MaxAuthSteps == 3

\* how many calls the category service is given
MaxCatOps == 2

\* how many requests reach the gateway's rate limiting middleware
MaxGatewayCalls == 2

\* how many calls of Update the book repository is given
MaxBookOps == 2

\* cleanupEvery: 10 * time.Minute
CleanupMinutes == 10

\* JWT_EXPIRATION_HOURS and REFRESH_TOKEN_EXPIRY (168h), as config.go sets them
JWTExpirationHours == 24
RefreshTokenExpiryHours == 168

IPs == {"a", "b"}
Requests == {"r1", "r2"}
Janitor == "janitor"
Goroutines == Requests \cup {Janitor}

\* the float64 1 of "tokens < 1" and "tokens--", in token units
One == TicksPerSec

\* The values RATE_LIMIT_IP, RATE_LIMIT_IP_BURST, RATE_LIMIT_GLOBAL and
\* RATE_LIMIT_GLOBAL_BURST take: <<ipRate, ipBurst, globalRate, globalBurst>>.
\* strconv.Atoi and strconv.ParseFloat accept zero and negative numbers.
Configs ==
    { <<1, 2, 100, 100>>,   \* the first scenario of the specification
      <<1, 2, 1, 1>>,       \* the second scenario: a global bucket of one token
      <<2, 1, 1, 3>>,
      <<1, 1, 1, 2>>,       \* a global bucket larger than a client's
      <<1, 0, 1, 2>>,       \* a zero per-client burst
      <<-1, 2, 0, 2>> }     \* a negative per-client rate, a zero global rate

\* RATE_LIMIT_IP, RATE_LIMIT_IP_BURST, RATE_LIMIT_GLOBAL and
\* RATE_LIMIT_GLOBAL_BURST when the environment does not set them
DefaultConfig == <<10, 20, 100, 200>>

\* the configurations the goroutines are run under
MutexConfigs == { <<1, 2, 1, 1>>, <<2, 1, 1, 3>>, <<1, 0, 1, 2>> }

----------------------------------------------------------------------------
(* The code *)

min(a, b) == IF a < b THEN a ELSE b

\* float64(bucket.capacity), in token units
Full(bucket) == bucket.capacity * One

\* a refill that adds the tokens of the elapsed time and keeps the time of
\* the previous refill
refillBucketKeepTime(bucket, t) ==
    LET elapsed == t - bucket.lastRefil
    IN  [bucket EXCEPT !.tokens = min(Full(bucket), bucket.tokens + elapsed * bucket.rate)]

\* refillBucket, lines 82-86
refillBucket(bucket, t) ==
    LET elapsed == t - bucket.lastRefil
    IN  [bucket EXCEPT !.lastRefil = t,
                       !.tokens = min(Full(bucket), bucket.tokens + elapsed * bucket.rate)]

\* NewRateLimiter handing out a global bucket that starts empty
NewRateLimiterEmptyGlobal(ipR, ipB, gR, gB, t) ==
    [ ipLimits     |-> << >>,
      globalBucket |-> [tokens |-> 0, lastRefil |-> t, capacity |-> gB, rate |-> gR],
      ipRate       |-> ipR,
      ipBurst      |-> ipB,
      globalRate   |-> gR,
      globalBurst  |-> gB,
      cleanupEvery |-> CleanupMinutes * 60 * TicksPerSec ]

\* NewRateLimiter: the limiter it returns; it has no failing path
NewRateLimiter(ipR, ipB, gR, gB, t) ==
    [ ipLimits     |-> << >>,
      globalBucket |-> [tokens |-> gB * One, lastRefil |-> t, capacity |-> gB, rate |-> gR],
      ipRate       |-> ipR,
      ipBurst      |-> ipB,
      globalRate   |-> gR,
      globalBurst  |-> gB,
      cleanupEvery |-> CleanupMinutes * 60 * TicksPerSec ]

\* AllowGlobal with the check of line 56 written "tokens <= 0"
AllowGlobalWhileAnyToken(gb, t) ==
    LET g == refillBucket(gb, t)
    IN  IF g.tokens <= 0
        THEN [bucket |-> g, pass |-> FALSE]
        ELSE [bucket |-> [g EXCEPT !.tokens = @ - One], pass |-> TRUE]

\* AllowGlobal without the charge of line 59
AllowGlobalUncharged(gb, t) ==
    LET g == refillBucket(gb, t)
    IN  [bucket |-> g, pass |-> ~(g.tokens < One)]

\* Allow, lines 55-59: the global bucket after refill, check and charge
AllowGlobal(gb, t) ==
    LET g == refillBucket(gb, t)
    IN  IF g.tokens < One
        THEN [bucket |-> g, pass |-> FALSE]
        ELSE [bucket |-> [g EXCEPT !.tokens = @ - One], pass |-> TRUE]

\* AllowClient returning true for a bucket it has just created without
\* charging it
AllowClientFreeFirst(lim, ip, t) ==
    LET exists == ip \in DOMAIN lim
        bucket == IF ~exists
                  THEN [tokens |-> ipBurst * One, lastRefil |-> t,
                        capacity |-> ipBurst, rate |-> ipRate]
                  ELSE refillBucket(lim[ip], t)
        put(b) == [i \in DOMAIN lim \cup {ip} |-> IF i = ip THEN b ELSE lim[i]]
    IN  IF bucket.tokens < One
        THEN [ipLimits |-> put(bucket), pass |-> FALSE]
        ELSE IF ~exists
        THEN [ipLimits |-> put(bucket), pass |-> TRUE]
        ELSE [ipLimits |-> put([bucket EXCEPT !.tokens = @ - One]), pass |-> TRUE]

\* AllowClient keeping one bucket for all clients: what it stores for ip it
\* stores under every key of the map
AllowClientSharedBucket(lim, ip, t) ==
    LET exists == ip \in DOMAIN lim
        bucket == IF ~exists
                  THEN [tokens |-> ipBurst * One, lastRefil |-> t,
                        capacity |-> ipBurst, rate |-> ipRate]
                  ELSE refillBucket(lim[ip], t)
        put(b) == [i \in DOMAIN lim \cup {ip} |-> b]
    IN  IF bucket.tokens < One
        THEN [ipLimits |-> put(bucket), pass |-> FALSE]
        ELSE [ipLimits |-> put([bucket EXCEPT !.tokens = @ - One]), pass |-> TRUE]

\* AllowClient refilling every bucket of the map, not only the caller's
AllowClientRefillAll(lim, ip, t) ==
    LET exists == ip \in DOMAIN lim
        bucket == IF ~exists
                  THEN [tokens |-> ipBurst * One, lastRefil |-> t,
                        capacity |-> ipBurst, rate |-> ipRate]
                  ELSE refillBucket(lim[ip], t)
        put(b) == [i \in DOMAIN lim \cup {ip} |->
                      IF i = ip THEN b ELSE refillBucket(lim[i], t)]
    IN  IF bucket.tokens < One
        THEN [ipLimits |-> put(bucket), pass |-> FALSE]
        ELSE [ipLimits |-> put([bucket EXCEPT !.tokens = @ - One]), pass |-> TRUE]

\* AllowClient making a new bucket with the global rate and burst
AllowClientGlobalRate(lim, ip, t) ==
    LET exists == ip \in DOMAIN lim
        bucket == IF ~exists
                  THEN [tokens |-> globalBurst * One, lastRefil |-> t,
                        capacity |-> globalBurst, rate |-> globalRate]
                  ELSE refillBucket(lim[ip], t)
        put(b) == [i \in DOMAIN lim \cup {ip} |-> IF i = ip THEN b ELSE lim[i]]
    IN  IF bucket.tokens < One
        THEN [ipLimits |-> put(bucket), pass |-> FALSE]
        ELSE [ipLimits |-> put([bucket EXCEPT !.tokens = @ - One]), pass |-> TRUE]

\* AllowClient charging an admitted call two tokens
AllowClientChargeTwo(lim, ip, t) ==
    LET exists == ip \in DOMAIN lim
        bucket == IF ~exists
                  THEN [tokens |-> ipBurst * One, lastRefil |-> t,
                        capacity |-> ipBurst, rate |-> ipRate]
                  ELSE refillBucket(lim[ip], t)
        put(b) == [i \in DOMAIN lim \cup {ip} |-> IF i = ip THEN b ELSE lim[i]]
    IN  IF bucket.tokens < One
        THEN [ipLimits |-> put(bucket), pass |-> FALSE]
        ELSE [ipLimits |-> put([bucket EXCEPT !.tokens = @ - 2 * One]), pass |-> TRUE]

\* Allow, lines 61-79: the per-client map after lookup or creation, refill,
\* check and charge
AllowClient(lim, ip, t) ==
    LET exists == ip \in DOMAIN lim
        bucket == IF ~exists
                  THEN [tokens |-> ipBurst * One, lastRefil |-> t,
                        capacity |-> ipBurst, rate |-> ipRate]
                  ELSE refillBucket(lim[ip], t)
        put(b) == [i \in DOMAIN lim \cup {ip} |-> IF i = ip THEN b ELSE lim[i]]
    IN  IF bucket.tokens < One
        THEN [ipLimits |-> put(bucket), pass |-> FALSE]
        ELSE [ipLimits |-> put([bucket EXCEPT !.tokens = @ - One]), pass |-> TRUE]

\* Evictable by age alone, without the comparison of tokens and capacity
EvictableByAge(bucket, t) ==
    t - bucket.lastRefil > cleanupEvery

\* Evictable with the age compared by >= : a bucket last refilled exactly one
\* sweep period ago is deleted too
EvictableAtPeriod(bucket, t) ==
    bucket.tokens = Full(bucket) /\ t - bucket.lastRefil >= cleanupEvery

\* cleanup, line 96: the condition under which the sweep deletes a bucket
Evictable(bucket, t) ==
    bucket.tokens = Full(bucket) /\ t - bucket.lastRefil > cleanupEvery

\* a sweep that empties the per-client map
cleanupSweepAll(lim, t) == << >>

\* a sweep that refills every bucket to the time of the sweep, stores the
\* refilled buckets and compares those with their capacity
cleanupSweepRefilling(lim, t) ==
    LET refilled == [i \in DOMAIN lim |-> refillBucket(lim[i], t)]
        keep == {i \in DOMAIN lim : ~Evictable(refilled[i], t)}
    IN  [i \in keep |-> refilled[i]]

\* cleanup, lines 95-99: the per-client map after one sweep
cleanupSweep(lim, t) ==
    LET keep == {i \in DOMAIN lim : ~Evictable(lim[i], t)}
    IN  [i \in keep |-> lim[i]]

----------------------------------------------------------------------------
(* The limiter with each handler run as one step.  Allow and the janitor's  *)
(* sweep hold rl.mu from their first to their last access of the limiter,   *)
(* so here each is a single action; SpecMutex below runs them one           *)
(* statement at a time under the lock.                                      *)

\* the return statement an Allow call leaves by: "global" (line 57),
\* "client" (line 75), both returning false, or "ok" (line 79), returning true
Outcome(globalPass, clientPass) ==
    IF ~globalPass THEN "global" ELSE IF ~clientPass THEN "client" ELSE "ok"

\* AllowAt looking up, creating and charging the client's bucket before the
\* global check
AllowAtClientFirst(gb, lim, ip, t) ==
    LET g == AllowGlobal(gb, t)
        c == AllowClient(lim, ip, t)
    IN  [ globalBucket |-> g.bucket,
          ipLimits     |-> c.ipLimits,
          out          |-> Outcome(g.pass, c.pass) ]

\* AllowAt giving the global token back when the client's bucket refuses
AllowAtRefund(gb, lim, ip, t) ==
    LET g == AllowGlobal(gb, t)
        c == AllowClient(lim, ip, t)
    IN  [ globalBucket |-> IF g.pass /\ ~c.pass THEN refillBucket(gb, t) ELSE g.bucket,
          ipLimits     |-> IF g.pass THEN c.ipLimits ELSE lim,
          out          |-> Outcome(g.pass, c.pass) ]

\* Allow(ip) at time t on the limiter <<gb, lim>>, lines 53-79: the limiter
\* it leaves and the return statement it leaves by
AllowAt(gb, lim, ip, t) ==
    LET g == AllowGlobal(gb, t)
        c == AllowClient(lim, ip, t)
    IN  [ globalBucket |-> g.bucket,
          ipLimits     |-> IF g.pass THEN c.ipLimits ELSE lim,
          out          |-> Outcome(g.pass, c.pass) ]

\* the entry of log for a call Allow(ip) at time t that found the global
\* bucket gb and the per-client map lim, left by out, left by soloOut in the
\* run of solo[ip] and by unsweptOut in the run of unswept; created tells
\* whether the call made a new bucket for ip
Entry(ip, t, gb, lim, out, soloOut, unsweptOut) ==
    [ip |-> ip, at |-> t, global |-> refillBucket(gb, t).tokens, out |-> out,
     solo |-> soloOut, unswept |-> unsweptOut,
     created |-> (out # "global" /\ ip \notin DOMAIN lim)]

\* the history after a call Allow(ip) at time t that left by out
Record(ip, t, out) ==
    LET s == AllowAt(solo[ip].globalBucket, solo[ip].ipLimits, ip, t)
        u == AllowAt(unswept.globalBucket, unswept.ipLimits, ip, t)
    IN  /\ log' = Append(log, Entry(ip, t, globalBucket, ipLimits, out, s.out, u.out))
        /\ solo' = [solo EXCEPT ![ip] = [globalBucket |-> s.globalBucket,
                                         ipLimits |-> s.ipLimits]]
        /\ unswept' = [globalBucket |-> u.globalBucket, ipLimits |-> u.ipLimits]
        /\ UNCHANGED <<sweptAt, serial>>

\* the history after a sweep at time t
RecordSweep(t) ==
    /\ sweptAt' = t
    /\ solo' = [i \in IPs |-> [solo[i] EXCEPT !.ipLimits = cleanupSweep(@, t)]]
    /\ UNCHANGED <<log, unswept>>

\* Allow(ip), lines 49-80, called at the current time
Allow(ip) ==
    /\ Len(log) < MaxCalls
    /\ LET a == AllowAt(globalBucket, ipLimits, ip, clock)
       IN  /\ globalBucket' = a.globalBucket
           /\ ipLimits' = a.ipLimits
           /\ Record(ip, clock, a.out)
    /\ UNCHANGED <<clock, ipRate, ipBurst, globalRate, globalBurst, cleanupEvery,
                   tickerNext, goVars>>
    /\ UNCHANGED <<authVars, catVars, gwVars, bookVars>>

\* the time of the first tick of the ticker after the one taken at time t
NextTick(t) == tickerNext + cleanupEvery * ((t - tickerNext) \div cleanupEvery + 1)

\* cleanup, line 92: the janitor, waiting on ticker.C, receives a tick
JanitorTick ==
    /\ pc[Janitor] = "idle"
    /\ clock >= tickerNext
    /\ tickerNext' = NextTick(clock)
    /\ pc' = [pc EXCEPT ![Janitor] = "lock"]
    /\ UNCHANGED <<clock, rlVars, mu, arg, now, ret, histVars>>
    /\ UNCHANGED <<authVars, catVars, gwVars, bookVars>>

\* cleanup, lines 93-100: the sweep the janitor makes for the tick it received
Sweep ==
    /\ pc[Janitor] = "lock"
    /\ ipLimits' = cleanupSweep(ipLimits, clock)
    /\ pc' = [pc EXCEPT ![Janitor] = "idle"]
    /\ RecordSweep(clock)
    /\ UNCHANGED <<clock, globalBucket, ipRate, ipBurst, globalRate, globalBurst,
                   cleanupEvery, tickerNext, mu, arg, now, ret, serial>>
    /\ UNCHANGED <<authVars, catVars, gwVars, bookVars>>

\* the clock advances by one tick, up to most ticks past a janitor period
TickWithin(most) ==
    /\ clock % cleanupEvery < most
    /\ clock' = clock + 1
    /\ sweptAt' = -1
    /\ UNCHANGED <<rlVars, tickerNext, goVars, log, solo, serial, unswept>>
    /\ UNCHANGED <<authVars, catVars, gwVars, bookVars>>

Tick == TickWithin(MaxTicks)

\* the clock advances by one janitor period
Period ==
    /\ clock \div cleanupEvery < MaxPeriods
    /\ clock' = clock + cleanupEvery
    /\ sweptAt' = -1
    /\ UNCHANGED <<rlVars, tickerNext, goVars, log, solo, serial, unswept>>
    /\ UNCHANGED <<authVars, catVars, gwVars, bookVars>>

----------------------------------------------------------------------------
(* The state the services start in *)

Users == {"u1", "u2"}
Sessions == {"s1", "s2"}

\* the empty string of the column refresh_token; the refresh tokens that
\* GenerateRandomString produces are numbered from 1
NoRefreshToken == 0

\* what a session holds while no RefreshToken call of it is in progress
NoCall == [user |-> "none", refresh |-> NoRefreshToken]

\* the user service over a table of users that have not logged in and an
\* empty Redis
AuthInit ==
    /\ users = [u \in Users |-> [refreshToken |-> NoRefreshToken, refreshExp |-> 0]]
    /\ blacklist = << >>
    /\ minted = 0
    /\ issued = {}
    /\ refreshing = [s \in Sessions |-> NoCall]
    /\ authLog = << >>
    /\ refreshed = {}

Workers == {"w1", "w2"}

\* "no category": the nil of a *model.Category, and the record-not-found of
\* a query
NotFound == [id |-> "", name |-> "", parent |-> ""]

\* what a worker holds between calls: calls counts the calls it has made and
\* made tells whether it has drawn its uuid.New()
Idle(calls, made) ==
    [pc |-> "idle", op |-> "none", id |-> "", name |-> "", parent |-> "",
     cat |-> NotFound, cur |-> "", visited |-> {}, key |-> <<"", "">>,
     back |-> "idle", got |-> NotFound, old |-> NotFound,
     calls |-> calls, made |-> made]

\* the category service over the table rows and the Redis contents cache
CategoryInit(rows, cache) ==
    /\ categories = rows
    /\ redis = cache
    /\ work = [w \in Workers |-> Idle(0, FALSE)]
    /\ catLog = << >>

\* what a request goroutine of the gateway holds while it handles no request
NoRequest ==
    [req |-> [xForwardedFor |-> "", xRealIP |-> "", remoteHost |-> ""],
     call |-> 0, allowed |-> FALSE]

\* the gateway with no request in its middleware chain
GatewayInit ==
    /\ inflight = [g \in Requests |-> NoRequest]
    /\ responses = << >>

\* no Update of the book repository is in progress
NoTx == [pc |-> "idle", book |-> << >>, row |-> << >>, links |-> {}, before |-> << >>]

\* the book service over the table rows and the associations links
BookInit(rows, links) ==
    /\ books = rows
    /\ bookCategories = links
    /\ tx = NoTx
    /\ bookLog = << >>

\* the limiter NewRateLimiter returns for the configuration c, at time 0
LimiterInit(c) ==
    LET rl == NewRateLimiter(c[1], c[2], c[3], c[4], 0)
    IN  /\ clock = 0
        /\ ipLimits = rl.ipLimits
        /\ globalBucket = rl.globalBucket
        /\ ipRate = rl.ipRate
        /\ ipBurst = rl.ipBurst
        /\ globalRate = rl.globalRate
        /\ globalBurst = rl.globalBurst
        /\ cleanupEvery = rl.cleanupEvery
        /\ tickerNext = rl.cleanupEvery
        /\ mu = "free"
        /\ pc = [g \in Goroutines |-> "idle"]
        /\ arg = [g \in Requests |-> "a"]
        /\ now = [g \in Goroutines |-> 0]
        /\ ret = [g \in Requests |-> "none"]
        /\ log = << >>
        /\ solo = [i \in IPs |-> [globalBucket |-> rl.globalBucket, ipLimits |-> rl.ipLimits]]
        /\ sweptAt = -1
        /\ serial = [globalBucket |-> rl.globalBucket, ipLimits |-> rl.ipLimits,
                     calls |-> 0, out |-> [g \in Requests |-> "none"]]
        /\ unswept = [globalBucket |-> rl.globalBucket, ipLimits |-> rl.ipLimits]

InitFrom(c) ==
    /\ LimiterInit(c)
    /\ AuthInit
    /\ CategoryInit(<< >>, << >>)
    /\ GatewayInit
    /\ BookInit(<< >>, {})

Init == \E c \in Configs : InitFrom(c)

Next ==
    \/ \E ip \in IPs : Allow(ip)
    \/ JanitorTick
    \/ Sweep
    \/ Tick
    \/ Period

Spec == Init /\ [][Next]_vars

----------------------------------------------------------------------------
(* The limiter with Allow and the sweep run a statement at a time by the    *)
(* request goroutines and the janitor goroutine, under rl.mu.               *)

\* a Lock that returns whether or not the mutex is held
CanLockAlways == TRUE

\* sync.Mutex.Lock returns when no goroutine holds the mutex
CanLock == mu = "free"

\* a return that leaves the mutex held
UnlockSkipped == UNCHANGED mu

\* rl.mu.Unlock(): deferred in Allow (line 51), line 100 in cleanup
Unlock == mu' = "free"

\* Allow returns by the return statement out: the call's frame (ip, now) is gone
Return(r, out) ==
    /\ pc' = [pc EXCEPT ![r] = "idle"]
    /\ ret' = [ret EXCEPT ![r] = out]
    /\ arg' = [arg EXCEPT ![r] = "a"]
    /\ now' = [now EXCEPT ![r] = 0]

\* a request goroutine enters Allow(ip) and arrives at rl.mu.Lock(), line 50
AllowCall(r, ip) ==
    /\ pc[r] = "idle"
    /\ serial.calls + Cardinality({q \in Requests : pc[q] = "lock"}) < MaxMutexCalls
    /\ pc' = [pc EXCEPT ![r] = "lock"]
    /\ arg' = [arg EXCEPT ![r] = ip]
    /\ UNCHANGED <<clock, rlVars, tickerNext, mu, now, ret, histVars>>
    /\ UNCHANGED <<authVars, catVars, gwVars, bookVars>>

\* lines 50-53: rl.mu.Lock() returns and the goroutine reads the clock
AllowLock(r) ==
    /\ pc[r] = "lock"
    /\ CanLock
    /\ mu' = r
    /\ now' = [now EXCEPT ![r] = clock]
    /\ pc' = [pc EXCEPT ![r] = "global"]
    /\ LET a == AllowAt(serial.globalBucket, serial.ipLimits, arg[r], clock)
       IN  serial' = [globalBucket |-> a.globalBucket, ipLimits |-> a.ipLimits,
                      calls |-> serial.calls + 1,
                      out |-> [serial.out EXCEPT ![r] = a.out]]
    /\ UNCHANGED <<clock, rlVars, tickerNext, arg, ret, log, solo, sweptAt, unswept>>
    /\ UNCHANGED <<authVars, catVars, gwVars, bookVars>>

\* lines 55-59: the global bucket is refilled, checked and charged; on the
\* return of line 57 the deferred Unlock runs
AllowGlobalStep(r) ==
    /\ pc[r] = "global"
    /\ LET g == AllowGlobal(globalBucket, now[r])
       IN  /\ globalBucket' = g.bucket
           /\ IF g.pass
              THEN /\ pc' = [pc EXCEPT ![r] = "client"]
                   /\ UNCHANGED <<mu, arg, now, ret>>
              ELSE /\ Return(r, "global")
                   /\ Unlock
    /\ UNCHANGED <<clock, ipLimits, ipRate, ipBurst, globalRate, globalBurst,
                   cleanupEvery, tickerNext, histVars>>
    /\ UNCHANGED <<authVars, catVars, gwVars, bookVars>>

\* lines 61-79: the client's bucket is looked up or created, refilled, checked
\* and charged; on return the deferred Unlock runs
AllowClientStep(r) ==
    /\ pc[r] = "client"
    /\ LET c == AllowClient(ipLimits, arg[r], now[r])
       IN  /\ ipLimits' = c.ipLimits
           /\ Return(r, Outcome(TRUE, c.pass))
    /\ Unlock
    /\ UNCHANGED <<clock, globalBucket, ipRate, ipBurst, globalRate, globalBurst,
                   cleanupEvery, tickerNext, histVars>>
    /\ UNCHANGED <<authVars, catVars, gwVars, bookVars>>

\* cleanup, lines 93-94: rl.mu.Lock() returns and the janitor reads the clock
JanitorLock ==
    /\ pc[Janitor] = "lock"
    /\ CanLock
    /\ mu' = Janitor
    /\ now' = [now EXCEPT ![Janitor] = clock]
    /\ pc' = [pc EXCEPT ![Janitor] = "sweep"]
    /\ serial' = [serial EXCEPT !.ipLimits = cleanupSweep(@, clock)]
    /\ UNCHANGED <<clock, rlVars, tickerNext, arg, ret, log, solo, sweptAt, unswept>>
    /\ UNCHANGED <<authVars, catVars, gwVars, bookVars>>

\* cleanup, lines 95-100: the scan of the map, and rl.mu.Unlock()
JanitorScan ==
    /\ pc[Janitor] = "sweep"
    /\ ipLimits' = cleanupSweep(ipLimits, now[Janitor])
    /\ pc' = [pc EXCEPT ![Janitor] = "idle"]
    /\ Unlock
    /\ now' = [now EXCEPT ![Janitor] = 0]
    /\ UNCHANGED <<clock, globalBucket, ipRate, ipBurst, globalRate, globalBurst,
                   cleanupEvery, tickerNext, arg, ret, histVars>>
    /\ UNCHANGED <<authVars, catVars, gwVars, bookVars>>

MutexTick == TickWithin(MaxMutexTicks)

NextMutex ==
    \/ \E r \in Requests, ip \in IPs : AllowCall(r, ip)
    \/ \E r \in Requests : AllowLock(r)
    \/ \E r \in Requests : AllowGlobalStep(r)
    \/ \E r \in Requests : AllowClientStep(r)
    \/ JanitorTick
    \/ JanitorLock
    \/ JanitorScan
    \/ MutexTick
    \/ Period

InitMutex == \E c \in MutexConfigs : InitFrom(c)

SpecMutex == InitMutex /\ [][NextMutex]_vars

\* The goroutines under the scheduling Go gives them: a goroutine that can run
\* a statement does run it (weak fairness), and one waiting at rl.mu.Lock()
\* is not passed over for ever while the mutex keeps being released
\* (sync.Mutex hands the lock to a waiter that has waited over 1ms: strong
\* fairness).
\* The clock advances by whole janitor periods only.
NextFair ==
    \/ \E r \in Requests, ip \in IPs : AllowCall(r, ip)
    \/ \E r \in Requests : AllowLock(r)
    \/ \E r \in Requests : AllowGlobalStep(r)
    \/ \E r \in Requests : AllowClientStep(r)
    \/ JanitorTick
    \/ JanitorLock
    \/ JanitorScan
    \/ Period

FairSpecMutex ==
    /\ InitMutex
    /\ [][NextFair]_vars
    /\ \A r \in Requests : /\ SF_vars(AllowLock(r))
                            /\ WF_vars(AllowGlobalStep(r))
                            /\ WF_vars(AllowClientStep(r))
    /\ SF_vars(JanitorLock)
    /\ WF_vars(JanitorScan)

----------------------------------------------------------------------------
(* The gateway's middleware chain: main wraps every route of the router in  *)
(* RateLimiter.Middleware.  A request is its headers X-Forwarded-For and     *)
(* X-Real-IP and the host of its RemoteAddr, which net/http sets to          *)
(* "IP:port".  A header is "" when absent, the canonical text "a" or "b" of  *)
(* a client's address, "A", another text of the address of "a" (as          *)
(* "::ffff:..." is of an IPv4 address), or "a, b", the list a chain of       *)
(* proxies leaves.  The handler runs in two steps: up to the return of       *)
(* Allow, and from there to its own return.                                  *)

HeaderValues == {"", "a", "b", "A", "a, b"}

\* net.ParseIP(h).String(), "" for the nil it returns for what is not one
\* address
ParseIP(h) ==
    CASE h \in {"a", "A"} -> "a"
      [] h = "b"          -> "b"
      [] OTHER            -> ""

\* extractClientIP, logging.go lines 64-86
extractClientIP(r) ==
    IF r.xForwardedFor # "" /\ ParseIP(r.xForwardedFor) # ""
    THEN ParseIP(r.xForwardedFor)
    ELSE IF r.xRealIP # "" /\ ParseIP(r.xRealIP) # ""
    THEN ParseIP(r.xRealIP)
    ELSE r.remoteHost

HTTPRequest(xff, xri, host) == [xForwardedFor |-> xff, xRealIP |-> xri, remoteHost |-> host]

\* the requests that reach the gateway
HTTPRequests ==
    { HTTPRequest("", "", "a"),
      HTTPRequest("b", "", "a"),
      HTTPRequest("A", "b", "b"),
      HTTPRequest("a, b", "", "b"),
      HTTPRequest("a, b", "a", "b"),
      HTTPRequest("", "a, b", "a") }

\* http.StatusTooManyRequests
StatusTooManyRequests == 429

\* the statuses the handlers behind the middleware answer with
NextStatuses == {200, 404}

\* Respond passing every request on to the next handler
RespondAlwaysNext(allowed, nextStatus) ==
    [status |-> nextStatus, next |-> 1]

\* Middleware, lines 108-118: the status the request is answered with and
\* how many times next.ServeHTTP is called, after Allow returned allowed;
\* nextStatus is what the next handler writes
Respond(allowed, nextStatus) ==
    IF ~allowed
    THEN [status |-> StatusTooManyRequests, next |-> 0]
    ELSE [status |-> nextStatus, next |-> 1]

\* Middleware, lines 106-108: the client IP is extracted and Allow is called
\* with it, at the current time
MiddlewareAllow(g, req) ==
    /\ inflight[g] = NoRequest
    /\ Len(log) < MaxGatewayCalls
    /\ LET clientIP == extractClientIP(req)
           a == AllowAt(globalBucket, ipLimits, clientIP, clock)
       IN  /\ globalBucket' = a.globalBucket
           /\ ipLimits' = a.ipLimits
           /\ Record(clientIP, clock, a.out)
           /\ inflight' = [inflight EXCEPT ![g] =
                              [req |-> req, call |-> Len(log) + 1, allowed |-> a.out = "ok"]]
    /\ UNCHANGED <<clock, ipRate, ipBurst, globalRate, globalBurst, cleanupEvery,
                   tickerNext, goVars, responses>>
    /\ UNCHANGED <<authVars, catVars, bookVars>>

\* Middleware, lines 108-118: the request is answered 429, or the next
\* handler serves it, and the handler returns
MiddlewareRespond(g, nextStatus) ==
    /\ inflight[g] # NoRequest
    /\ LET r == Respond(inflight[g].allowed, nextStatus)
       IN  responses' = Append(responses, [req |-> inflight[g].req,
                                           call |-> inflight[g].call,
                                           status |-> r.status, next |-> r.next])
    /\ inflight' = [inflight EXCEPT ![g] = NoRequest]
    /\ UNCHANGED <<clock, limiterVars, authVars, catVars, bookVars>>

\* the configurations the gateway is run under
GatewayConfigs == { <<1, 1, 1, 2>>, <<1, 2, 1, 1>> }

NextGateway ==
    \/ \E g \in Requests, req \in HTTPRequests : MiddlewareAllow(g, req)
    \/ \E g \in Requests, nextStatus \in NextStatuses : MiddlewareRespond(g, nextStatus)
    \/ Tick

InitGateway == \E c \in GatewayConfigs : InitFrom(c)

SpecGateway == InitGateway /\ [][NextGateway]_vars

----------------------------------------------------------------------------
(* The user service: authService over authRepository (table users and the   *)
(* Redis blacklist) and JWTAuth.  An access token is the JWT's claims: the   *)
(* user and the times iat and exp in whole seconds, which with the signing  *)
(* key determine the token string.  A refresh token is a number.  Each      *)
(* handler is one step, except RefreshToken, which reads the table and      *)
(* writes it in two statements.                                             *)

Hours(h) == h * 3600 * TicksPerSec

\* JWTAuth.GenerateToken at time t: jwt.NewNumericDate truncates to seconds
GenerateToken(u, t) ==
    [user |-> u, iat |-> t \div TicksPerSec,
     exp |-> (t + Hours(JWTExpirationHours)) \div TicksPerSec]

\* a token string that was not signed with the service's key
Unsigned == [user |-> "u1", iat |-> 0, exp |-> 0]

\* the token strings a client may send
Presented == issued \cup {Unsigned}

\* JWTAuth.ValidateToken at time t: the signature verifies and the token has
\* not expired (jwt: now.Before(exp))
ValidateToken(tok, t) ==
    tok \in issued /\ t < tok.exp * TicksPerSec

\* authRepository.IsTokenBlacklisted at time t: the key exists, its TTL not over
IsTokenBlacklisted(tok, t) ==
    tok \in DOMAIN blacklist /\ t < blacklist[tok]

\* authRepository.GetUserByRefreshToken at time t: the users it may return
GetUserByRefreshToken(r, t) ==
    {u \in Users : users[u].refreshToken = r /\ users[u].refreshExp > t}

\* authRepository.StoreRefreshToken
StoreRefreshToken(u, r, exp) ==
    [users EXCEPT ![u] = [refreshToken |-> r, refreshExp |-> exp]]

\* authRepository.RevokeRefreshToken at time t
RevokeRefreshToken(u, t) ==
    [users EXCEPT ![u] = [refreshToken |-> NoRefreshToken, refreshExp |-> t]]

\* authRepository.StoreTokenInBlacklist with the TTL ending at time until
StoreTokenInBlacklist(tok, until) ==
    [k \in DOMAIN blacklist \cup {tok} |-> IF k = tok THEN until ELSE blacklist[k]]

\* the entry of authLog for a call: the handler, the user it concerned, the
\* access token and the refresh token it was given or, for Logout, found
\* stored for the user, the time, whether it returned success, and which of
\* its writes failed
AuthEntry(op, u, access, refresh, ok, fault) ==
    [op |-> op, user |-> u, access |-> access, refresh |-> refresh, at |-> clock,
     ok |-> ok, fault |-> fault]

AuthRecord(e) ==
    /\ Len(authLog) < MaxAuthOps
    /\ authLog' = Append(authLog, e)

\* authService.Login for user u: passwordOk is what CheckPasswordHash finds,
\* storeErr whether the UPDATE of StoreRefreshToken fails
Login(u, passwordOk, storeErr) ==
    LET access == GenerateToken(u, clock)
        refresh == minted + 1
    IN  /\ IF ~passwordOk
           THEN /\ AuthRecord(AuthEntry("Login", u, Unsigned, NoRefreshToken, FALSE, "none"))
                /\ UNCHANGED <<users, minted, issued>>
           ELSE IF storeErr
           THEN /\ AuthRecord(AuthEntry("Login", u, Unsigned, NoRefreshToken, FALSE, "db"))
                /\ minted' = refresh
                /\ UNCHANGED <<users, issued>>
           ELSE /\ AuthRecord(AuthEntry("Login", u, access, refresh, TRUE, "none"))
                /\ minted' = refresh
                /\ users' = StoreRefreshToken(u, refresh, clock + Hours(RefreshTokenExpiryHours))
                /\ issued' = issued \cup {access}
        /\ UNCHANGED <<clock, limiterVars, gwVars, bookVars>>
        /\ UNCHANGED <<blacklist, refreshing, refreshed, catVars>>

\* authService.RefreshToken, lines 137-141: the lookup of the user by refresh
\* token r; without a user the call returns the invalid-token error
RefreshLookup(s, r) ==
    /\ refreshing[s] = NoCall
    /\ LET found == GetUserByRefreshToken(r, clock)
       IN  IF found = {}
           THEN /\ AuthRecord(AuthEntry("RefreshToken", "none", Unsigned, r, FALSE, "none"))
                /\ UNCHANGED refreshing
           ELSE \E u \in found :
                /\ AuthRecord(AuthEntry("RefreshToken", u, Unsigned, r, TRUE, "none"))
                /\ refreshing' = [refreshing EXCEPT ![s] = [user |-> u, refresh |-> r]]
    /\ UNCHANGED <<clock, limiterVars, gwVars, bookVars>>
    /\ UNCHANGED <<users, blacklist, minted, issued, refreshed, catVars>>

\* authService.RefreshToken, lines 143-171: a new access token and a new
\* refresh token, stored for the user; the call succeeds also when the store
\* fails
RefreshStore(s, storeErr) ==
    /\ refreshing[s] # NoCall
    /\ LET u == refreshing[s].user
       IN  /\ issued' = issued \cup {GenerateToken(u, clock)}
           /\ minted' = minted + 1
           /\ users' = IF storeErr THEN users
                       ELSE StoreRefreshToken(u, minted + 1,
                                              clock + Hours(RefreshTokenExpiryHours))
    /\ refreshing' = [refreshing EXCEPT ![s] = NoCall]
    /\ refreshed' = refreshed \cup {[refresh |-> refreshing[s].refresh, stored |-> ~storeErr,
                                     after |-> Len(authLog)]}
    /\ UNCHANGED <<clock, limiterVars, gwVars, bookVars, blacklist, authLog, catVars>>

\* which writes of a Logout failed
Fault(cacheErr, dbErr) ==
    IF cacheErr /\ dbErr THEN "both" ELSE IF cacheErr THEN "cache"
    ELSE IF dbErr THEN "db" ELSE "none"

\* authService.Logout(accessToken): cacheErr is whether the SET of the
\* blacklist key fails, dbErr whether the UPDATE of RevokeRefreshToken fails;
\* both failures are logged and Logout returns nil
Logout(tok, cacheErr, dbErr) ==
    /\ IF ~ValidateToken(tok, clock)
       THEN /\ AuthRecord(AuthEntry("Logout", tok.user, tok, NoRefreshToken, FALSE, "none"))
            /\ UNCHANGED <<users, blacklist>>
       ELSE /\ AuthRecord(AuthEntry("Logout", tok.user, tok, users[tok.user].refreshToken,
                                    TRUE, Fault(cacheErr, dbErr)))
            /\ blacklist' = IF tok.exp * TicksPerSec - clock > 0 /\ ~cacheErr
                            THEN StoreTokenInBlacklist(tok, tok.exp * TicksPerSec)
                            ELSE blacklist
            /\ users' = IF dbErr THEN users ELSE RevokeRefreshToken(tok.user, clock)
    /\ UNCHANGED <<clock, limiterVars, gwVars, bookVars>>
    /\ UNCHANGED <<minted, issued, refreshing, refreshed, catVars>>

\* JWTAuth.HTTPMiddleware for a request with the header "Bearer <tok>": the
\* next handler is served when JWTAuth.ValidateToken accepts the token, and
\* the request is answered 401 otherwise.  UnaryInterceptor and
\* StreamInterceptor make the same decision.
HTTPMiddleware(tok) ==
    /\ AuthRecord(AuthEntry("Request", tok.user, tok, NoRefreshToken,
                            ValidateToken(tok, clock), "none"))
    /\ UNCHANGED <<clock, limiterVars, gwVars, bookVars>>
    /\ UNCHANGED <<users, blacklist, minted, issued, refreshing, refreshed, catVars>>

\* time passes between the calls of the user service
AuthAdvance ==
    /\ clock < MaxAuthSteps * Hours(AuthStepHours)
    /\ clock' = clock + Hours(AuthStepHours)
    /\ UNCHANGED <<limiterVars, gwVars, bookVars, authVars, catVars>>

NextAuth ==
    \/ \E u \in Users, passwordOk \in BOOLEAN, storeErr \in BOOLEAN :
            Login(u, passwordOk, storeErr)
    \/ \E s \in Sessions, r \in 0..minted : RefreshLookup(s, r)
    \/ \E s \in Sessions, storeErr \in BOOLEAN : RefreshStore(s, storeErr)
    \/ \E tok \in Presented, cacheErr \in BOOLEAN, dbErr \in BOOLEAN :
            Logout(tok, cacheErr, dbErr)
    \/ \E tok \in Presented : HTTPMiddleware(tok)
    \/ AuthAdvance

InitAuth == InitFrom(DefaultConfig)

SpecAuth == InitAuth /\ [][NextAuth]_vars

----------------------------------------------------------------------------
(* The category service: categoryService over categoryRepository, which     *)
(* reads through Redis and writes to the table categories.  Each worker     *)
(* runs one handler at a time, a step for each statement that reads or      *)
(* writes Redis or the table and a step for the handler's decision after    *)
(* each repository call.  A category is [id, name, parent], parent "" for a *)
(* nil ParentID; Description, the timestamps and the list cache are left    *)
(* out.  A row of the table also has deleted, for gorm's DeletedAt, which   *)
(* the JSON in Redis does not carry.  Redis and the database answer every   *)
(* command: their connection errors are not modelled, and no key of Redis   *)
(* reaches the end of its TTL, CacheDefaultTTL, within a run.               *)

\* the ids and names the requests carry
ReqIDs == {"c1", "c2"}
ReqNames == {"n1", "n2"}

\* uuid.New() in model.NewCategory, for the category a worker creates
NewID == [w \in Workers |-> IF w = "w1" THEN "c3" ELSE "c4"]

Row(id, name, parent) == [id |-> id, name |-> name, parent |-> parent, deleted |-> FALSE]

\* the tables the service is started over: empty, one root, two roots
InitialTables ==
    { << >>,
      [i \in {"c1"} |-> Row("c1", "n1", "")],
      [i \in {"c1", "c2"} |-> IF i = "c1" THEN Row("c1", "n1", "") ELSE Row("c2", "n2", "")] }

\* a row as the model.Category a query returns and Redis stores
Category(row) == [id |-> row.id, name |-> row.name, parent |-> row.parent]

\* the rows a query sees: gorm adds "deleted_at IS NULL"
Live == {i \in DOMAIN categories : ~categories[i].deleted}

\* the rows matching Where("id = ?") or Where("name = ?") of a key
Matching(key) ==
    {i \in Live : IF key[1] = "id" THEN i = key[2] ELSE categories[i].name = key[2]}

\* the unique index on name would reject cat being written
NameTaken(cat) ==
    \E i \in DOMAIN categories : i # cat.id /\ categories[i].name = cat.name

IDKey(id) == <<"id", id>>
NameKey(name) == <<"name", name>>

\* redis.Del
CacheDelete(key) == [k \in DOMAIN redis \ {key} |-> redis[k]]

\* redis.Set
CacheSet(key, value) == [k \in DOMAIN redis \cup {key} |-> IF k = key THEN value ELSE redis[k]]

Put(w, rec) == work' = [work EXCEPT ![w] = rec]

\* the handler returns
Finish(rec) == Idle(rec.calls, rec.made)

\* the handler calls GetByID or GetByName for key and goes on at back when
\* that returns
Call(rec, key, back) == [rec EXCEPT !.pc = "cacheGet", !.key = key, !.back = back]

\* the entry of catLog: an Update or Delete that returned success, with the
\* row it found and the category it left, or a read that Redis answered
CatEntry(kind, key, value, old) == [kind |-> kind, key |-> key, value |-> value, old |-> old]

\* CreateCategory, lines 33-54, after GetByName(req.Name): the name exists
\* already, or the parent is looked up, or there is none
CreateNamed(rec) ==
    IF rec.got # NotFound THEN Finish(rec)
    ELSE IF rec.parent # "" THEN Call(rec, IDKey(rec.parent), "cParent")
    ELSE [rec EXCEPT !.pc = "insert",
                     !.cat = [id |-> rec.id, name |-> rec.name, parent |-> ""]]

\* CreateCategory, lines 44-56, after GetByID(parent)
CreateParent(rec) ==
    IF rec.got = NotFound THEN Finish(rec)
    ELSE [rec EXCEPT !.pc = "insert",
                     !.cat = [id |-> rec.id, name |-> rec.name, parent |-> rec.got.id]]

\* UpdateCategory, lines 94-103, after GetByID(id): not found, or GetByName
\* of the new name
UpdateLoaded(rec) ==
    IF rec.got = NotFound THEN Finish(rec)
    ELSE IF rec.name # "keep" /\ rec.name # rec.got.name
    THEN Call([rec EXCEPT !.cat = rec.got], NameKey(rec.name), "uNamed")
    ELSE [rec EXCEPT !.pc = "uParent", !.cat = rec.got]

\* UpdateCategory, lines 104-111, after GetByName: the name belongs to
\* another category, or category.Name = *req.Name
UpdateNamed(rec) ==
    IF rec.got # NotFound /\ rec.got.id # rec.id THEN Finish(rec)
    ELSE [rec EXCEPT !.pc = "uParent", !.cat.name = rec.name]

\* UpdateCategory, lines 117-130: no ParentID in the request, an empty one,
\* the category itself, or GetByID(parentID)
UpdateParent(rec) ==
    IF rec.parent = "keep" THEN [rec EXCEPT !.pc = "save"]
    ELSE IF rec.parent = "" THEN [rec EXCEPT !.pc = "save", !.cat.parent = ""]
    ELSE IF rec.parent = rec.id THEN Finish(rec)
    ELSE Call(rec, IDKey(rec.parent), "uParentLoaded")

\* UpdateCategory, lines 131-139, after GetByID(parentID): parent not found,
\* or ensureNoCycle(parentID, id) begins
UpdateParentLoaded(rec) ==
    IF rec.got = NotFound THEN Finish(rec)
    ELSE [rec EXCEPT !.pc = "cycle", !.cur = rec.parent, !.visited = {}]

\* ensureNoCycle, lines 238-249: checkCycle(current) up to its GetByID; when
\* it returns nil, UpdateCategory sets category.ParentID, line 143
checkCycle(rec) ==
    IF rec.cur = rec.id THEN Finish(rec)
    ELSE IF rec.cur \in rec.visited
    THEN [rec EXCEPT !.pc = "save", !.cat.parent = rec.parent]
    ELSE Call([rec EXCEPT !.visited = @ \cup {rec.cur}], IDKey(rec.cur), "cycleLoaded")

\* ensureNoCycle, lines 250-258, after GetByID(current)
checkCycleLoaded(rec) ==
    IF rec.got = NotFound THEN Finish(rec)
    ELSE IF rec.got.parent # ""
    THEN [rec EXCEPT !.pc = "cycle", !.cur = rec.got.parent]
    ELSE [rec EXCEPT !.pc = "save", !.cat.parent = rec.parent]

\* DeleteCategory, lines 157-165, and categoryRepository.Delete, line 396:
\* GetByID(id) again
DeleteLoaded(rec) ==
    IF rec.got = NotFound THEN Finish(rec)
    ELSE Call(rec, IDKey(rec.id), "dLoadedAgain")

\* categoryRepository.Delete, lines 397-399
DeleteLoadedAgain(rec) ==
    IF rec.got = NotFound THEN Finish(rec)
    ELSE [rec EXCEPT !.pc = "dCount", !.cat = rec.got]

\* the statements a handler runs on its own, from where rec stands up to its
\* next command to Redis or the database, or its return
RECURSIVE Proceed(_)
Proceed(rec) ==
    CASE rec.pc = "return"        -> Finish(rec)
      [] rec.pc = "cNamed"        -> Proceed(CreateNamed(rec))
      [] rec.pc = "cParent"       -> Proceed(CreateParent(rec))
      [] rec.pc = "uLoaded"       -> Proceed(UpdateLoaded(rec))
      [] rec.pc = "uNamed"        -> Proceed(UpdateNamed(rec))
      [] rec.pc = "uParent"       -> Proceed(UpdateParent(rec))
      [] rec.pc = "uParentLoaded" -> Proceed(UpdateParentLoaded(rec))
      [] rec.pc = "cycle"         -> Proceed(checkCycle(rec))
      [] rec.pc = "cycleLoaded"   -> Proceed(checkCycleLoaded(rec))
      [] rec.pc = "dLoaded"       -> Proceed(DeleteLoaded(rec))
      [] rec.pc = "dLoadedAgain"  -> Proceed(DeleteLoadedAgain(rec))
      [] OTHER                    -> rec

\* GetByID or GetByName returns got to the handler, which goes on
Got(rec, got) == Proceed([rec EXCEPT !.pc = rec.back, !.got = got])

\* the calls the workers have made
CatCalls == work["w1"].calls + work["w2"].calls

\* a worker takes a request and its handler calls GetByID or GetByName
Start(w, op, id, name, parent, key, back) ==
    /\ work[w].pc = "idle"
    /\ CatCalls < MaxCatOps
    /\ Put(w, Call([work[w] EXCEPT !.op = op, !.id = id, !.name = name,
                                   !.parent = parent, !.calls = @ + 1], key, back))
    /\ UNCHANGED <<clock, limiterVars, gwVars, bookVars>>
    /\ UNCHANGED <<authVars, categories, redis, catLog>>

\* GetCategoryByID, line 67
GetCategoryByID(w, id) == Start(w, "GetByID", id, "keep", "keep", IDKey(id), "return")

\* GetCategoryByName, line 80
GetCategoryByName(w, name) == Start(w, "GetByName", "", name, "keep", NameKey(name), "return")

\* CreateCategory, line 32: GetByName(req.Name)
CreateCategory(w, name, parent) ==
    /\ ~work[w].made
    /\ Start(w, "Create", NewID[w], name, parent, NameKey(name), "cNamed")

\* UpdateCategory, line 93: GetByID(id)
UpdateCategory(w, id, name, parent) == Start(w, "Update", id, name, parent, IDKey(id), "uLoaded")

\* DeleteCategory, line 156: GetByID(id)
DeleteCategory(w, id) == Start(w, "Delete", id, "keep", "keep", IDKey(id), "dLoaded")

\* GetByID and GetByName, lines 322-328 and 349-355: the cache is asked, and
\* what it has is returned
CacheGet(w) ==
    /\ work[w].pc = "cacheGet"
    /\ IF work[w].key \in DOMAIN redis
       THEN /\ Put(w, Got(work[w], redis[work[w].key]))
            /\ catLog' = Append(catLog, CatEntry("hit", work[w].key, redis[work[w].key],
                                                 NotFound))
       ELSE /\ Put(w, [work[w] EXCEPT !.pc = "dbRead"])
            /\ UNCHANGED catLog
    /\ UNCHANGED <<clock, limiterVars, gwVars, bookVars, authVars, categories, redis>>

\* lines 330-336 and 357-363: the query, First of the matching rows
DBRead(w) ==
    /\ work[w].pc = "dbRead"
    /\ IF Matching(work[w].key) = {}
       THEN Put(w, Got(work[w], NotFound))
       ELSE \E i \in Matching(work[w].key) :
                Put(w, [work[w] EXCEPT !.pc = "cacheSet", !.got = Category(categories[i])])
    /\ UNCHANGED <<clock, limiterVars, gwVars, bookVars>>
    /\ UNCHANGED <<authVars, categories, redis, catLog>>

\* lines 338-343 and 365-370: what the query returned is stored in the cache
\* and returned
CacheFill(w) ==
    /\ work[w].pc = "cacheSet"
    /\ redis' = CacheSet(work[w].key, work[w].got)
    /\ Put(w, Got(work[w], work[w].got))
    /\ UNCHANGED <<clock, limiterVars, gwVars, bookVars, authVars, categories, catLog>>

\* categoryRepository.Create, line 305: the INSERT, which the unique index on
\* name may reject
CreateInsert(w) ==
    /\ work[w].pc = "insert"
    /\ categories' = IF NameTaken(work[w].cat) THEN categories
                     ELSE [i \in DOMAIN categories \cup {work[w].cat.id} |->
                             IF i = work[w].cat.id
                             THEN Row(work[w].cat.id, work[w].cat.name, work[w].cat.parent)
                             ELSE categories[i]]
    /\ Put(w, Idle(work[w].calls, TRUE))
    /\ UNCHANGED <<clock, limiterVars, gwVars, bookVars, authVars, redis, catLog>>

\* categoryRepository.Update, line 374: db.Save writes every column of the
\* category and inserts the row when no live row has its id; the unique
\* index on name may reject it
UpdateSave(w) ==
    /\ work[w].pc = "save"
    /\ IF NameTaken(work[w].cat)
       THEN /\ Put(w, Finish(work[w]))
            /\ UNCHANGED categories
       ELSE /\ categories' = [i \in DOMAIN categories \cup {work[w].cat.id} |->
                                IF i = work[w].cat.id
                                THEN Row(work[w].cat.id, work[w].cat.name, work[w].cat.parent)
                                ELSE categories[i]]
            /\ Put(w, [work[w] EXCEPT !.pc = "delID",
                                      !.old = IF work[w].cat.id \in Live
                                              THEN Category(categories[work[w].cat.id])
                                              ELSE NotFound])
    /\ UNCHANGED <<clock, limiterVars, gwVars, bookVars, authVars, redis, catLog>>

\* Update, lines 382-383, and Delete, lines 428-429: the key of the id is
\* deleted from the cache
InvalidateID(w) ==
    /\ work[w].pc = "delID"
    /\ redis' = CacheDelete(IDKey(work[w].cat.id))
    /\ Put(w, [work[w] EXCEPT !.pc = "delName"])
    /\ UNCHANGED <<clock, limiterVars, gwVars, bookVars, authVars, categories, catLog>>

\* Update, lines 385-392, and Delete, lines 430-436: the key of
\* category.Name is deleted from the cache and the call returns nil
InvalidateName(w) ==
    /\ work[w].pc = "delName"
    /\ redis' = CacheDelete(NameKey(work[w].cat.name))
    /\ catLog' = Append(catLog,
                        IF work[w].op = "Delete"
                        THEN CatEntry("deleted", IDKey(work[w].cat.id), NotFound, work[w].old)
                        ELSE CatEntry("updated", IDKey(work[w].cat.id), work[w].cat, work[w].old))
    /\ Put(w, Finish(work[w]))
    /\ UNCHANGED <<clock, limiterVars, gwVars, bookVars, authVars, categories>>

\* categoryRepository.Delete, lines 402-410: the count of the child rows
DeleteCountChildren(w) ==
    /\ work[w].pc = "dCount"
    /\ Put(w, IF \E i \in Live : categories[i].parent = work[w].id
              THEN Finish(work[w])
              ELSE [work[w] EXCEPT !.pc = "dBooks"])
    /\ UNCHANGED <<clock, limiterVars, gwVars, bookVars>>
    /\ UNCHANGED <<authVars, categories, redis, catLog>>

\* categoryRepository.Delete, lines 413-420: HasBooks, which counts the rows
\* of books_categories
DeleteHasBooks(w, hasBooks) ==
    /\ work[w].pc = "dBooks"
    /\ Put(w, IF hasBooks THEN Finish(work[w]) ELSE [work[w] EXCEPT !.pc = "dDelete"])
    /\ UNCHANGED <<clock, limiterVars, gwVars, bookVars>>
    /\ UNCHANGED <<authVars, categories, redis, catLog>>

\* categoryRepository.Delete, line 422: the row is marked deleted
DeleteRow(w) ==
    /\ work[w].pc = "dDelete"
    /\ categories' = [i \in DOMAIN categories |->
                        IF i = work[w].id /\ i \in Live
                        THEN [categories[i] EXCEPT !.deleted = TRUE] ELSE categories[i]]
    /\ Put(w, [work[w] EXCEPT !.pc = "delID",
                              !.old = IF work[w].id \in Live
                                      THEN Category(categories[work[w].id]) ELSE NotFound])
    /\ UNCHANGED <<clock, limiterVars, gwVars, bookVars, authVars, redis, catLog>>

\* the requests UpdateCategory is given: <<name, parent>>, "keep" for a field
\* the request leaves out
UpdateRequests ==
    {<<n, "keep">> : n \in ReqNames} \cup {<<"keep", p>> : p \in {""} \cup ReqIDs}

NextCategory ==
    \/ \E w \in Workers, id \in ReqIDs : GetCategoryByID(w, id)
    \/ \E w \in Workers, name \in ReqNames : GetCategoryByName(w, name)
    \/ \E w \in Workers, name \in ReqNames, parent \in {""} \cup ReqIDs :
            CreateCategory(w, name, parent)
    \/ \E w \in Workers, id \in ReqIDs, req \in UpdateRequests :
            UpdateCategory(w, id, req[1], req[2])
    \/ \E w \in Workers, id \in ReqIDs : DeleteCategory(w, id)
    \/ \E w \in Workers : CacheGet(w)
    \/ \E w \in Workers : DBRead(w)
    \/ \E w \in Workers : CacheFill(w)
    \/ \E w \in Workers : CreateInsert(w)
    \/ \E w \in Workers : UpdateSave(w)
    \/ \E w \in Workers : InvalidateID(w)
    \/ \E w \in Workers : InvalidateName(w)
    \/ \E w \in Workers : DeleteCountChildren(w)
    \/ \E w \in Workers, hasBooks \in BOOLEAN : DeleteHasBooks(w, hasBooks)
    \/ \E w \in Workers : DeleteRow(w)

\* Redis holding every live row of the table under the key of its id and the
\* key of its name, as GetByID and GetByName leave it
Warm(rows) ==
    [k \in {IDKey(i) : i \in DOMAIN rows} \cup {NameKey(rows[i].name) : i \in DOMAIN rows} |->
        Category(rows[CHOOSE i \in DOMAIN rows : k \in {IDKey(i), NameKey(rows[i].name)}])]

\* the service starts over one of the tables, Redis empty or warm
InitCategory ==
    \E rows \in InitialTables : \E cache \in {<< >>, Warm(rows)} :
        /\ LimiterInit(DefaultConfig)
        /\ AuthInit
        /\ CategoryInit(rows, cache)
        /\ GatewayInit
        /\ BookInit(<< >>, {})

SpecCategory == InitCategory /\ [][NextCategory]_vars

----------------------------------------------------------------------------
(* The book service: bookRepository.Update over the tables books and        *)
(* books_categories.  A row of books is its title, for all the columns Save  *)
(* writes; an association is the pair <<book id, category id>> of a row of   *)
(* books_categories that is not deleted.  tx is the gorm transaction Update  *)
(* begins: what is written through it is seen by the tables only when it     *)
(* commits, what is written through r.db at once.  Each statement sent to    *)
(* the database is a step and may fail.  One Update runs at a time; the      *)
(* deletes of the cache keys after the commit are left out.                  *)

BookIDs == {"b1"}
Titles == {"t1", "t2"}
BookCategoryIDs == {"c1", "c2"}

\* a *model.Book as Update is given it: CategoryIDs as the set of the valid
\* uuids among its elements
Book(id, title, categoryIDs) == [id |-> id, title |-> title, categoryIDs |-> categoryIDs]

\* the tables as a call finds or leaves them
Tables(rows, links) == [books |-> rows, links |-> links]

\* Update returns: nil when ok, the error of the statement step otherwise;
\* rows and links are the tables it leaves
BookReturn(ok, step, rows, links) ==
    /\ books' = rows
    /\ bookCategories' = links
    /\ bookLog' = Append(bookLog, [book |-> tx.book, ok |-> ok, step |-> step,
                                   before |-> tx.before, after |-> Tables(rows, links)])
    /\ tx' = NoTx

\* Update, lines 152-157: the transaction begins
BookUpdate(book) ==
    /\ tx.pc = "idle"
    /\ Len(bookLog) < MaxBookOps
    /\ tx' = [pc |-> "save", book |-> book, row |-> << >>, links |-> {},
              before |-> Tables(books, bookCategories)]
    /\ UNCHANGED <<books, bookCategories, bookLog>>
    /\ UNCHANGED <<clock, limiterVars, authVars, catVars, gwVars>>

\* Update, lines 159-163: tx.Save(book); on an error the transaction is
\* rolled back and the error returned
BookSave(err) ==
    /\ tx.pc = "save"
    /\ IF err
       THEN BookReturn(FALSE, "save", books, bookCategories)
       ELSE /\ tx' = [tx EXCEPT !.pc = "remove",
                                !.row = [i \in {tx.book.id} |-> [title |-> tx.book.title]]]
            /\ UNCHANGED <<books, bookCategories, bookLog>>
    /\ UNCHANGED <<clock, limiterVars, authVars, catVars, gwVars>>

\* Update, lines 165-168, and RemoveCategories, lines 388-390: the
\* associations of the book are deleted through r.db, not through tx
BookRemoveCategories(err) ==
    /\ tx.pc = "remove"
    /\ IF err
       THEN BookReturn(FALSE, "remove", books, bookCategories)
       ELSE /\ bookCategories' = {l \in bookCategories : l[1] # tx.book.id}
            /\ tx' = [tx EXCEPT !.pc = IF tx.book.categoryIDs = {} THEN "commit" ELSE "add"]
            /\ UNCHANGED <<books, bookLog>>
    /\ UNCHANGED <<clock, limiterVars, authVars, catVars, gwVars>>

\* Update, lines 170-175, and addBookCategories, lines 408-433: the new
\* associations are created through tx; on an error of a Create the
\* transaction is rolled back and the error returned
BookAddCategories(err) ==
    /\ tx.pc = "add"
    /\ IF err
       THEN BookReturn(FALSE, "add", books, bookCategories)
       ELSE /\ tx' = [tx EXCEPT !.pc = "commit",
                                !.links = {<<tx.book.id, c>> : c \in tx.book.categoryIDs}]
            /\ UNCHANGED <<books, bookCategories, bookLog>>
    /\ UNCHANGED <<clock, limiterVars, authVars, catVars, gwVars>>

\* Update, lines 177-191: tx.Commit(); the tables take what was written
\* through tx, or, on an error, nothing of it
BookCommit(err) ==
    /\ tx.pc = "commit"
    /\ IF err
       THEN BookReturn(FALSE, "commit", books, bookCategories)
       ELSE BookReturn(TRUE, "none",
                       [i \in DOMAIN books \cup DOMAIN tx.row |->
                           IF i \in DOMAIN tx.row THEN tx.row[i] ELSE books[i]],
                       bookCategories \cup tx.links)
    /\ UNCHANGED <<clock, limiterVars, authVars, catVars, gwVars>>

NextBook ==
    \/ \E id \in BookIDs, title \in Titles, categoryIDs \in SUBSET BookCategoryIDs :
            BookUpdate(Book(id, title, categoryIDs))
    \/ \E err \in BOOLEAN : BookSave(err)
    \/ \E err \in BOOLEAN : BookRemoveCategories(err)
    \/ \E err \in BOOLEAN : BookAddCategories(err)
    \/ \E err \in BOOLEAN : BookCommit(err)

\* the service starts over a table with the book "b1" and any associations
InitBook ==
    \E links \in SUBSET (BookIDs \X BookCategoryIDs) :
        /\ LimiterInit(DefaultConfig)
        /\ AuthInit
        /\ CategoryInit(<< >>, << >>)
        /\ GatewayInit
        /\ BookInit([i \in BookIDs |-> [title |-> "t1"]], links)

SpecBook == InitBook /\ [][NextBook]_vars

----------------------------------------------------------------------------
(* What the claims speak of *)

\* the Allow calls made for client ip, in order
Calls(ip) == SelectSeq(log, LAMBDA e : e.ip = ip)

\* every bucket of the limiter: the global one and the per-client ones
Buckets == {globalBucket} \cup {ipLimits[i] : i \in DOMAIN ipLimits}

\* the configuration is what the specification calls valid
PositiveConfig == ipRate > 0 /\ ipBurst > 0 /\ globalRate > 0 /\ globalBurst > 0

\* the instants an interval may begin or end at: those of the calls, and now
Instants == {log[k].at : k \in 1..Len(log)} \cup {clock}

\* the calls of the clients in who that returned true within [from, to]
Admitted(who, from, to) ==
    {k \in 1..Len(log) : /\ log[k].ip \in who
                         /\ log[k].out = "ok"
                         /\ from <= log[k].at
                         /\ log[k].at <= to}

\* the ticks in 1/ipRate seconds, when that is a whole number of ticks
RefillDelay == IF ipRate > 0 /\ TicksPerSec % ipRate = 0 THEN TicksPerSec \div ipRate ELSE -1

----------------------------------------------------------------------------
(* C1 *)

\* C1: in every reachable state every bucket, the global one and every
\* per-client one, has 0 <= tokens <= capacity.
C1_TokensWithinCapacity ==
    \A b \in Buckets : 0 <= b.tokens /\ b.tokens <= Full(b)

\* The same bound for the limiters whose four parameters are positive.
TokensWithinCapacityWhenPositive ==
    PositiveConfig => C1_TokensWithinCapacity

----------------------------------------------------------------------------
(* C2 *)

\* C2: of the calls a never-seen client makes at one instant, each passing
\* the global check, exactly the first ipBurst return true: the k-th returns
\* true if and only if k <= ipBurst, so the (ipBurst+1)-th returns false.
C2_BurstAdmission ==
    \A ip \in IPs :
        LET c == Calls(ip)
        IN  \A k \in 1..Len(c) :
                (\A j \in 1..k : c[j].at = c[1].at /\ c[j].out # "global")
                    => ((c[k].out = "ok") <=> (k <= ipBurst))

\* A client of burst 2 has made three calls at the instant it was first seen:
\* two returned true and the third was refused by its own bucket.
C2_Witness ==
    /\ ipBurst = 2
    /\ \E ip \in IPs :
        LET c == Calls(ip)
        IN  /\ Len(c) = 3
            /\ c[3].at = c[1].at
            /\ c[1].out = "ok" /\ c[2].out = "ok" /\ c[3].out = "client"

----------------------------------------------------------------------------
(* C3 *)

\* C3: when a call for a client was refused by the client's bucket and the
\* client's next call comes exactly 1/ipRate seconds later and passes the
\* global check, that call returns true, and a call of the client at the same
\* instant as that one, passing the global check, returns false.
C3_RefillRecovery ==
    \A ip \in IPs :
        LET c == Calls(ip)
        IN  \A k \in 1..(Len(c) - 1) :
                ( /\ c[k].out = "client"
                  /\ RefillDelay > 0
                  /\ c[k+1].at = c[k].at + RefillDelay
                  /\ c[k+1].out # "global" )
                => /\ c[k+1].out = "ok"
                   /\ (k + 2 <= Len(c) /\ c[k+2].at = c[k+1].at /\ c[k+2].out # "global")
                        => c[k+2].out = "client"

\* The same recovery for the limiters whose four parameters are positive.
RefillRecoveryWhenPositive ==
    PositiveConfig => C3_RefillRecovery

\* The scenario of C3: with ipRate=1, ipBurst=2, globalRate=100, globalBurst=100
\* the calls of one client return true, true, false and, one second later, true.
RefillScenario ==
    ( /\ ipRate = 1 /\ ipBurst = 2 /\ globalRate = 100 /\ globalBurst = 100
      /\ Len(log) = 4
      /\ \A k \in 1..4 : log[k].ip = "a"
      /\ log[2].at = log[1].at /\ log[3].at = log[1].at
      /\ log[4].at = log[3].at + TicksPerSec )
    => <<log[1].out, log[2].out, log[3].out, log[4].out>> = <<"ok", "ok", "client", "ok">>

----------------------------------------------------------------------------
(* C4 *)

\* C4: a call that finds fewer than 1 token in the global bucket after its
\* refill returns false at the global check, whoever the client; and with
\* globalRate=1, globalBurst=1 a call that returned true is followed, at the
\* same instant, only by calls that return false at the global check, as
\* Allow("a") = true and then Allow("b") = false.
C4_GlobalCeiling ==
    /\ \A k \in 1..Len(log) : log[k].global < One => log[k].out = "global"
    /\ (globalRate = 1 /\ globalBurst = 1) =>
        /\ \A k \in 2..Len(log) :
              (log[k-1].out = "ok" /\ log[k].at = log[k-1].at) => log[k].out = "global"
        /\ (Len(log) >= 1 /\ ipBurst >= 1) => log[1].out = "ok"

\* With globalRate=1 and globalBurst=1, Allow("a") returned true and the call
\* Allow("b") that followed at once returned false, "b" never seen before.
C4_Witness ==
    /\ globalRate = 1 /\ globalBurst = 1
    /\ Len(log) = 2
    /\ log[1].ip = "a" /\ log[1].out = "ok"
    /\ log[2].ip = "b" /\ log[2].at = log[1].at /\ log[2].out = "global"
    /\ "b" \notin DOMAIN ipLimits

----------------------------------------------------------------------------
(* C5 *)

\* C5: for every client, if the global check passed at each of its calls, in
\* the run with the other clients' calls and in the run without them, then
\* its calls returned the same in both runs.
C5_Independence ==
    \A ip \in IPs :
        LET c == Calls(ip)
        IN  (\A k \in 1..Len(c) : c[k].out # "global" /\ c[k].solo # "global")
                => \A k \in 1..Len(c) : c[k].out = c[k].solo

\* Client "a" has used up its bucket, and a call of client "b" made after that
\* passed the global check and returned true, as in the run without "a".
C5_Witness ==
    \E i, j \in 1..Len(log) :
        /\ i < j
        /\ log[i].ip = "a" /\ log[i].out = "client"
        /\ log[j].ip = "b" /\ log[j].out = "ok" /\ log[j].solo = "ok"
        /\ \A k \in 1..Len(log) : log[k].out # "global"

----------------------------------------------------------------------------
(* C6 *)

\* C6: no step deletes a per-client bucket whose stored tokens differ from its
\* capacity.
C6_EvictionSafety ==
    [][\A ip \in DOMAIN ipLimits :
          ip \notin DOMAIN ipLimits' => ipLimits[ip].tokens = Full(ipLimits[ip])]_vars

\* A sweep has just run over a bucket that is not full and was last refilled
\* more than a sweep period before it, and the bucket is still there.
C6_Witness ==
    /\ sweptAt = clock
    /\ \E ip \in DOMAIN ipLimits :
        /\ ipLimits[ip].tokens # Full(ipLimits[ip])
        /\ sweptAt - ipLimits[ip].lastRefil > cleanupEvery

\* A sweep has deleted a bucket: the client has called Allow, passed the
\* global check, and has no bucket.
SweepEvicts ==
    \E ip \in IPs :
        /\ ip \notin DOMAIN ipLimits
        /\ \E k \in 1..Len(log) : log[k].ip = ip /\ log[k].out # "global"

----------------------------------------------------------------------------
(* C7 *)

\* C7: a per-client bucket does not outlive a sweep made more than a sweep
\* period after its client's last call, at a time by which the bucket had
\* recovered to full: the janitor destroys the buckets of idle clients.
C7_MemoryReclamation ==
    \A ip \in DOMAIN ipLimits :
        LET c == Calls(ip)
        IN  ~ ( /\ sweptAt - c[Len(c)].at > cleanupEvery
                /\ refillBucket(ipLimits[ip], sweptAt).tokens = Full(ipLimits[ip]) )

\* Why C7 fails: with ipBurst >= 1 no step ever removes a bucket from the
\* map, because Allow leaves the stored tokens below capacity and nothing else
\* writes them.
NoEvictionWhenBurstPositive ==
    [][ipBurst >= 1 => DOMAIN ipLimits \subseteq DOMAIN ipLimits']_vars

----------------------------------------------------------------------------
(* C8 *)

\* the goroutines between rl.mu.Lock() and rl.mu.Unlock()
InCriticalSection == {g \in Goroutines : pc[g] \in {"global", "client", "sweep"}}

\* C8: at most one goroutine, request or janitor, is inside the critical
\* section, and it is the holder of the mutex; whenever the mutex is free the
\* limiter equals the one of the run that made the same calls and sweeps
\* whole, one after the other in the order the lock was acquired; and every
\* call has returned what it returned in that run.
C8_Serialization ==
    /\ Cardinality(InCriticalSection) <= 1
    /\ InCriticalSection = IF mu = "free" THEN {} ELSE {mu}
    /\ mu = "free" =>
        /\ globalBucket = serial.globalBucket
        /\ ipLimits = serial.ipLimits
    /\ \A r \in Requests : pc[r] \in {"idle", "lock"} => ret[r] = serial.out[r]

\* One request goroutine is inside Allow's critical section, past the global
\* check, while the other request goroutine and the janitor wait at
\* rl.mu.Lock().
C8_Witness ==
    /\ pc["r1"] = "client" /\ mu = "r1"
    /\ pc["r2"] = "lock"
    /\ pc[Janitor] = "lock"

\* Both request goroutines have returned from Allow for the same client, one
\* admitted and one refused, as in the run in lock order.
C8_BothReturned ==
    /\ serial.calls = 2 /\ mu = "free"
    /\ ret["r1"] = "ok" /\ ret["r2"] = "client"

----------------------------------------------------------------------------
(* C9 *)

\* C9: in every interval that begins at a call that returned true, the calls
\* of one client that return true number at most ipBurst + ipRate*T, and those
\* of all clients at most globalBurst + globalRate*T, T the interval's length
\* in seconds.
C9_ThroughputCap ==
    \A from \in {log[k].at : k \in Admitted(IPs, 0, clock)} :
        \A to \in {t \in Instants : from <= t} :
            /\ \A ip \in IPs :
                  Cardinality(Admitted({ip}, from, to)) * One
                      <= ipBurst * One + ipRate * (to - from)
            /\ Cardinality(Admitted(IPs, from, to)) * One
                      <= globalBurst * One + globalRate * (to - from)

\* The same caps for the limiters whose four parameters are positive.
ThroughputCapWhenPositive ==
    PositiveConfig => C9_ThroughputCap

----------------------------------------------------------------------------
(* C10 *)

\* C10: no limiter runs with a zero or negative per-client rate, per-client
\* burst, global rate or global burst: NewRateLimiter has rejected them.
C10_MisconfigurationRejected ==
    PositiveConfig

----------------------------------------------------------------------------
(* C11 *)

\* the return statements of Allow: line 79 returns true, lines 57 and 75 false
Returns == {"ok", "client", "global"}

\* C11: a request goroutine that is not inside Allow does not hold the mutex
\* and its last call, if it made one, left by a return statement with true or
\* false; a goroutine inside the critical section of Allow leaves it; and a
\* goroutine waiting at rl.mu.Lock(), request or janitor, acquires the mutex.
C11_AllowReturns ==
    /\ [](\A r \in Requests :
            pc[r] = "idle" => /\ mu # r
                              /\ ret[r] \in Returns \cup {"none"}
                              /\ ret[r] = "none" <=> serial.out[r] = "none")
    /\ \A r \in Requests : (pc[r] \in {"global", "client"}) ~> (pc[r] = "idle")
    /\ \A g \in Goroutines : (pc[g] = "lock") ~> (mu = g)

\* A call has returned false at the global check, line 57, and after it the
\* janitor, which waited at rl.mu.Lock(), holds the mutex.
C11_Witness ==
    /\ pc["r1"] = "idle" /\ ret["r1"] = "global"
    /\ mu = Janitor

----------------------------------------------------------------------------
(* C12 *)

\* C12: every call returned what it returned in the run whose janitor never
\* sweeps; and a call that made a new bucket for its client, the client never
\* seen or its bucket evicted, returned what a full bucket gives: true if and
\* only if ipBurst >= 1.
C12_EvictionTransparency ==
    \A k \in 1..Len(log) :
        /\ log[k].out = log[k].unswept
        /\ log[k].created => (log[k].out = "ok" <=> ipBurst >= 1)

\* A client's bucket was evicted by a sweep and the client has called again:
\* the call made a new bucket, and in the run without sweeps it found the old
\* one.
C12_Witness ==
    \E j, k \in 1..Len(log) :
        /\ j < k
        /\ log[j].ip = log[k].ip
        /\ log[j].created /\ log[k].created
        /\ log[k].ip \in DOMAIN ipLimits

----------------------------------------------------------------------------
(* C13 *)

\* the time at which the access token tok expires
ExpiresAt(tok) == tok.exp * TicksPerSec

\* C13: once Logout has returned success for an access token, every later
\* request that presents the token to HTTPMiddleware before the token's
\* expiry is answered unauthorized.
C13_BlacklistAfterLogout ==
    \A i, j \in 1..Len(authLog) :
        ( /\ i < j
          /\ authLog[i].op = "Logout" /\ authLog[i].ok
          /\ authLog[j].op = "Request" /\ authLog[j].access = authLog[i].access
          /\ authLog[j].at < ExpiresAt(authLog[i].access) )
        => ~authLog[j].ok

\* What Logout does do: when its SET did not fail, the token's key is in
\* Redis from the Logout until the token expires.
BlacklistStored ==
    \A i \in 1..Len(authLog) :
        ( /\ authLog[i].op = "Logout" /\ authLog[i].ok
          /\ authLog[i].fault \notin {"cache", "both"}
          /\ clock < ExpiresAt(authLog[i].access) )
        => IsTokenBlacklisted(authLog[i].access, clock)

\* A request was served with a token that was in the blacklist at the time.
ServedWhileBlacklisted ==
    /\ Len(authLog) >= 2
    /\ authLog[Len(authLog)].op = "Request" /\ authLog[Len(authLog)].ok
    /\ authLog[Len(authLog)].at = clock
    /\ IsTokenBlacklisted(authLog[Len(authLog)].access, clock)

----------------------------------------------------------------------------
(* C14 *)

\* following the parent links of the live rows from id, for at most n links,
\* arrives at target
RECURSIVE Ancestor(_, _, _)
Ancestor(id, target, n) ==
    IF n = 0 \/ id \notin Live THEN FALSE
    ELSE IF categories[id].parent = "" THEN FALSE
    ELSE categories[id].parent = target \/ Ancestor(categories[id].parent, target, n - 1)

\* C14: following ParentID links from any category never returns to that
\* category.
C14_Acyclic ==
    \A id \in Live : ~Ancestor(id, id, Cardinality(DOMAIN categories))

----------------------------------------------------------------------------
(* C15 *)

\* the entries of catLog for an Update or Delete that returned success
Writes == {"updated", "deleted"}

\* C15: after an Update or Delete of a category has returned success, no read
\* that Redis answers, under any key, returns the category as it was before
\* that write (until the next write of the category returns).
C15_CacheInvalidation ==
    \A i, j \in 1..Len(catLog) :
        ( /\ i < j
          /\ catLog[i].kind \in Writes
          /\ catLog[i].old # NotFound /\ catLog[i].old # catLog[i].value
          /\ catLog[j].kind = "hit"
          /\ catLog[j].value.id = catLog[i].key[2]
          /\ \A k \in (i + 1)..(j - 1) :
                ~(catLog[k].kind \in Writes /\ catLog[k].key = catLog[i].key) )
        => catLog[j].value # catLog[i].old

----------------------------------------------------------------------------
(* C16 *)

\* C16: once Logout has returned success for a user, a later RefreshToken
\* call with the refresh token the user held before the logout fails with
\* the invalid-token error.
C16_RevocationOnLogout ==
    \A i, j \in 1..Len(authLog) :
        ( /\ i < j
          /\ authLog[i].op = "Logout" /\ authLog[i].ok
          /\ authLog[i].refresh # NoRefreshToken
          /\ authLog[j].op = "RefreshToken" /\ authLog[j].refresh = authLog[i].refresh )
        => ~authLog[j].ok

\* The same for the logouts whose UPDATE of RevokeRefreshToken did not fail.
RevocationWhenRevoked ==
    \A i, j \in 1..Len(authLog) :
        ( /\ i < j
          /\ authLog[i].op = "Logout" /\ authLog[i].ok
          /\ authLog[i].fault \notin {"db", "both"}
          /\ authLog[i].refresh # NoRefreshToken
          /\ authLog[j].op = "RefreshToken" /\ authLog[j].refresh = authLog[i].refresh )
        => ~authLog[j].ok

----------------------------------------------------------------------------
(* C17 *)

\* C17: the step of Allow that refills, checks and charges the global bucket
\* leaves it exactly 1 token below its refilled value when the check passes,
\* and has not touched the per-client map; and from then until the call
\* returns, by line 75 with false or by line 79, no step changes the global
\* bucket: nothing is refunded.
C17_ChargeBeforeCheck ==
    [][\A r \in Requests :
          /\ (pc[r] = "global" /\ pc'[r] = "client") =>
                /\ refillBucket(globalBucket, now[r]).tokens >= One
                /\ globalBucket' = [refillBucket(globalBucket, now[r])
                                        EXCEPT !.tokens = @ - One]
                /\ ipLimits' = ipLimits
          /\ pc[r] = "client" =>
                /\ globalBucket' = globalBucket
                /\ pc'[r] # "client" => pc'[r] = "idle" /\ ret'[r] \in {"client", "ok"}]_vars

\* A call passed the global check of a bucket of 2 tokens, was refused by its
\* client's bucket and has returned: the global bucket holds 1 token.
C17_Witness ==
    /\ serial.calls = 1 /\ mu = "free"
    /\ \E r \in Requests : pc[r] = "idle" /\ ret[r] = "client"
    /\ globalBurst = 2 /\ globalBucket.tokens = One

----------------------------------------------------------------------------
(* C18 *)

\* C18: a call that returns at the global check changes nothing but the
\* global bucket, which it leaves refilled: the per-client map, its keys and
\* every field of its buckets, is as the call found it.
C18_GlobalRejectionFrame ==
    [][(Len(log') = Len(log) + 1 /\ log'[Len(log')].out = "global") =>
          /\ ipLimits' = ipLimits
          /\ globalBucket' = refillBucket(globalBucket, clock)
          /\ UNCHANGED <<ipRate, ipBurst, globalRate, globalBurst, cleanupEvery>>]_vars

\* The latest call, of a client never seen, was refused at the global check
\* while another client has a bucket: the client has no bucket.
C18_Witness ==
    /\ Len(log) >= 2
    /\ log[Len(log)].out = "global"
    /\ log[Len(log)].ip \notin DOMAIN ipLimits
    /\ \A k \in 1..Len(log) : log[k].ip = log[Len(log)].ip => log[k].out = "global"
    /\ DOMAIN ipLimits # {}

----------------------------------------------------------------------------
(* C19 *)

\* C19: a sweep deletes a per-client bucket if and only if its stored tokens
\* equal its capacity and its lastRefil is more than cleanupEvery before the
\* time of the sweep; it creates no bucket and leaves every field of the
\* surviving buckets, the global bucket and the configuration as they were.
C19_EvictionRule ==
    [][(pc[Janitor] = "lock" /\ pc'[Janitor] = "idle") =>
          /\ DOMAIN ipLimits' \subseteq DOMAIN ipLimits
          /\ \A ip \in DOMAIN ipLimits :
                /\ ip \notin DOMAIN ipLimits' <=>
                      /\ ipLimits[ip].tokens = ipLimits[ip].capacity * One
                      /\ clock - ipLimits[ip].lastRefil > cleanupEvery
                /\ ip \in DOMAIN ipLimits' => ipLimits'[ip] = ipLimits[ip]
          /\ UNCHANGED <<globalBucket, ipRate, ipBurst, globalRate, globalBurst,
                         cleanupEvery>>]_vars

\* A sweep has just deleted the bucket of one client and kept the bucket of
\* another, which is full and was last refilled exactly cleanupEvery before.
C19_Witness ==
    /\ sweptAt = clock
    /\ \E ip \in IPs :
        /\ ip \notin DOMAIN ipLimits
        /\ \E k \in 1..Len(log) : log[k].ip = ip /\ log[k].created
    /\ \E ip \in DOMAIN ipLimits :
        /\ ipLimits[ip].tokens = Full(ipLimits[ip])
        /\ sweptAt - ipLimits[ip].lastRefil = cleanupEvery

----------------------------------------------------------------------------
(* C20 *)

\* the buckets of the clients other than ip are in lim2 as they are in lim1
OthersUntouched(lim1, lim2, ip) ==
    \A o \in IPs \ {ip} :
        /\ o \in DOMAIN lim1 <=> o \in DOMAIN lim2
        /\ o \in DOMAIN lim1 => lim2[o] = lim1[o]

\* C20: after every call Allow(c) the bucket of c exists and has been
\* refilled or created at the time of the call, and no bucket of another
\* client has been created, deleted or modified.
C20_TwoBuckets ==
    [][Len(log') = Len(log) + 1 =>
          LET c == log'[Len(log')].ip
          IN  /\ c \in DOMAIN ipLimits'
              /\ ipLimits'[c].lastRefil = clock
              /\ OthersUntouched(ipLimits, ipLimits', c)]_vars

\* C20 as amended: after every call Allow(c) that passes the global check the
\* bucket of c exists and has been refilled or created at the time of the
\* call; after a call refused at the global check the bucket of c is as it
\* was, existing or not; and in both cases no bucket of another client has
\* been created, deleted or modified.
C20_TwoBucketsPastGlobal ==
    [][Len(log') = Len(log) + 1 =>
          LET c == log'[Len(log')].ip
          IN  /\ log'[Len(log')].out # "global" =>
                    /\ c \in DOMAIN ipLimits'
                    /\ ipLimits'[c].lastRefil = clock
              /\ log'[Len(log')].out = "global" =>
                    /\ c \in DOMAIN ipLimits <=> c \in DOMAIN ipLimits'
                    /\ c \in DOMAIN ipLimits => ipLimits'[c] = ipLimits[c]
              /\ OthersUntouched(ipLimits, ipLimits', c)]_vars

\* Both clients have buckets, last refilled at different times: the latest
\* call, of one of them after the clock advanced, refilled only its own.
C20_Witness ==
    /\ DOMAIN ipLimits = IPs
    /\ Len(log) = 3
    /\ log[3].out # "global"
    /\ ipLimits[log[3].ip].lastRefil = clock
    /\ \E o \in IPs \ {log[3].ip} : ipLimits[o].lastRefil < clock

----------------------------------------------------------------------------
(* C21 *)

\* C21: in the state NewRateLimiter leaves, the global bucket holds
\* globalBurst tokens, its capacity, and has the rate globalRate, the
\* per-client map is empty and the janitor waits for the first tick of its
\* ticker, one sweep period ahead; and a step that puts a bucket into the map
\* is a call of Allow for that bucket's client, which passed the global check.
C21_InitialState ==
    /\ /\ globalBucket.tokens = globalBurst * One
       /\ globalBucket.capacity = globalBurst
       /\ globalBucket.rate = globalRate
       /\ ipLimits = << >>
       /\ pc[Janitor] = "idle" /\ tickerNext = clock + cleanupEvery
    /\ [][\A ip \in DOMAIN ipLimits' \ DOMAIN ipLimits :
              /\ Len(log') = Len(log) + 1
              /\ log'[Len(log')].ip = ip
              /\ log'[Len(log')].out # "global"]_vars

\* The first call made on the limiter, for client "a", has put the bucket of
\* "a" into the map, and the client "b", which made no call, has none.
C21_Witness ==
    /\ Len(log) = 1 /\ log[1].ip = "a" /\ log[1].created
    /\ DOMAIN ipLimits = {"a"}

----------------------------------------------------------------------------
(* C22 *)

\* C22: no step changes ipRate, ipBurst, globalRate, globalBurst or
\* cleanupEvery, which is 10 minutes; in every state every per-client bucket
\* has the capacity ipBurst and the rate ipRate and the global bucket the
\* capacity globalBurst and the rate globalRate; and the janitor's sweep
\* leaves the global bucket as it is.
C22_ConfigurationImmutable ==
    /\ [](/\ cleanupEvery = CleanupMinutes * 60 * TicksPerSec
          /\ \A ip \in DOMAIN ipLimits :
                ipLimits[ip].capacity = ipBurst /\ ipLimits[ip].rate = ipRate
          /\ globalBucket.capacity = globalBurst
          /\ globalBucket.rate = globalRate)
    /\ [][/\ UNCHANGED <<ipRate, ipBurst, globalRate, globalBurst, cleanupEvery>>
          /\ (pc[Janitor] = "lock" /\ pc'[Janitor] = "idle") =>
                globalBucket' = globalBucket]_vars

\* Both clients have buckets, the global bucket has been charged, and the
\* janitor has just swept, a sweep period after construction.
C22_Witness ==
    /\ sweptAt = clock /\ clock >= cleanupEvery
    /\ DOMAIN ipLimits = IPs
    /\ globalBucket.tokens < Full(globalBucket)

----------------------------------------------------------------------------
(* C23 *)

\* C23: every request answered made one call of Allow, its own, with the
\* client IP extracted from it, and every call of Allow belongs to a request;
\* a request whose call returned false was answered 429 without the next
\* handler being called, and one whose call returned true was passed to the
\* next handler once.
C23_Middleware ==
    /\ Len(log) = Len(responses) + Cardinality({g \in Requests : inflight[g] # NoRequest})
    /\ \A k \in 1..Len(responses) :
        LET e == responses[k]
        IN  /\ e.call \in 1..Len(log)
            /\ log[e.call].ip = extractClientIP(e.req)
            /\ \A j \in 1..Len(responses) : j # k => responses[j].call # e.call
            /\ log[e.call].out # "ok" => e.status = StatusTooManyRequests /\ e.next = 0
            /\ log[e.call].out = "ok" => e.next = 1

\* Two requests have been answered, the first passed on to the next handler
\* and the second, whose X-Forwarded-For is a list and whose client is found
\* in X-Real-IP, answered 429.
C23_Witness ==
    /\ Len(responses) = 2
    /\ responses[1].next = 1
    /\ responses[2].req = HTTPRequest("a, b", "a", "b")
    /\ responses[2].status = StatusTooManyRequests /\ responses[2].next = 0

----------------------------------------------------------------------------
(* C24 *)

\* C24: in every state the ParentID of every category that exists, that is,
\* has not been deleted, is nil or the id of a category that exists.
C24_ParentExists ==
    \A i \in Live : categories[i].parent # "" => categories[i].parent \in Live

----------------------------------------------------------------------------
(* C25 *)

\* C25: a call Allow(c) that returns true found at least 1 token in the
\* global bucket and in the bucket of c after their refill, the bucket of c
\* counted as holding ipBurst when the call made it, and leaves each of the
\* two exactly 1 token below that.
C25_AdmissionCost ==
    [][(Len(log') = Len(log) + 1 /\ log'[Len(log')].out = "ok") =>
          LET c == log'[Len(log')].ip
              g == refillBucket(globalBucket, clock).tokens
              b == IF c \in DOMAIN ipLimits
                   THEN refillBucket(ipLimits[c], clock).tokens
                   ELSE ipBurst * One
          IN  /\ g >= One /\ globalBucket'.tokens = g - One
              /\ b >= One /\ ipLimits'[c].tokens = b - One]_vars

\* A client's second call, made after its bucket had refilled by a fraction
\* of a token, was admitted and has left a fraction of a token in the bucket.
C25_Witness ==
    /\ Len(log) = 2
    /\ log[1].ip = log[2].ip /\ log[1].at < log[2].at
    /\ log[1].out = "ok" /\ log[2].out = "ok"
    /\ 0 < ipLimits[log[2].ip].tokens /\ ipLimits[log[2].ip].tokens < One

----------------------------------------------------------------------------
(* C26 *)

\* C26: with ipBurst >= 1 every stored per-client bucket holds less than its
\* capacity; a call that passed the global check leaves its client's bucket
\* with at most capacity - 1 tokens when it returns true and with less than 1
\* when it returns false; and the stored tokens of a bucket change only in a
\* call of Allow for its client: no other step, the sweep among them, writes
\* them.
C26_StoredBelowCapacity ==
    /\ [](ipBurst >= 1 =>
            \A ip \in DOMAIN ipLimits : ipLimits[ip].tokens < Full(ipLimits[ip]))
    /\ [][ipBurst >= 1 =>
            /\ (Len(log') = Len(log) + 1 /\ log'[Len(log')].out # "global") =>
                  LET b == ipLimits'[log'[Len(log')].ip]
                  IN  /\ log'[Len(log')].out = "ok" => b.tokens <= Full(b) - One
                      /\ log'[Len(log')].out = "client" => b.tokens < One
            /\ \A ip \in DOMAIN ipLimits \cap DOMAIN ipLimits' :
                  ipLimits'[ip].tokens # ipLimits[ip].tokens =>
                      /\ Len(log') = Len(log) + 1
                      /\ log'[Len(log')].ip = ip]_vars

\* The janitor has just swept over a bucket that would be full had it been
\* refilled to the time of the sweep, and is old enough to go: its stored
\* tokens are what its client's last call left, below capacity, and it stays.
C26_Witness ==
    /\ ipBurst >= 1
    /\ sweptAt = clock
    /\ \E ip \in DOMAIN ipLimits :
        /\ refillBucket(ipLimits[ip], sweptAt).tokens = Full(ipLimits[ip])
        /\ ipLimits[ip].tokens < Full(ipLimits[ip])
        /\ sweptAt - ipLimits[ip].lastRefil > cleanupEvery
        /\ ipLimits[ip].lastRefil = Calls(ip)[Len(Calls(ip))].at

----------------------------------------------------------------------------
(* C27 *)

\* C27: a call that is refused by its client's bucket has taken 1 token from
\* the global bucket all the same, and a client never seen is refused at the
\* global check whenever the calls before it, admitted or not, have left the
\* global bucket less than 1 token after its refill.
C27_RejectedCallsCharge ==
    /\ [][(Len(log') = Len(log) + 1 /\ log'[Len(log')].out = "client") =>
             globalBucket'.tokens = refillBucket(globalBucket, clock).tokens - One]_vars
    /\ [](\A k \in 1..Len(log) :
             (log[k].global < One /\ \A j \in 1..(k - 1) : log[j].ip # log[k].ip)
                 => log[k].out = "global" /\ ~log[k].created)

\* Under a valid configuration client "a" was admitted once and then refused
\* by its own bucket, that refused call took the last token of the global
\* bucket, and the first call of client "b", at the same instant, has been
\* refused at the global check: "b" has no bucket.
C27_Witness ==
    /\ PositiveConfig
    /\ Len(log) = 3
    /\ log[1].ip = "a" /\ log[1].out = "ok"
    /\ log[2].ip = "a" /\ log[2].out = "client"
    /\ log[2].global >= One /\ log[2].global - One < One
    /\ log[3].ip = "b" /\ log[3].out = "global" /\ log[3].at = log[2].at
    /\ "b" \notin DOMAIN ipLimits

----------------------------------------------------------------------------
(* C28 *)

\* C28: a call of bookRepository.Update that returned an error has left the
\* rows of books and the associations of books_categories exactly as it
\* found them.
C28_UpdateAtomic ==
    \A k \in 1..Len(bookLog) :
        ~bookLog[k].ok => bookLog[k].after = bookLog[k].before

\* What does hold: a call that returned an error has left the rows of books
\* as it found them, and one that returned nil has left the book with the
\* title and exactly the associations it was given.
BookRowRestored ==
    \A k \in 1..Len(bookLog) :
        LET e == bookLog[k]
        IN  /\ ~e.ok => e.after.books = e.before.books
            /\ e.ok => /\ e.after.books[e.book.id].title = e.book.title
                       /\ {l \in e.after.links : l[1] = e.book.id}
                            = {<<e.book.id, c>> : c \in e.book.categoryIDs}

\* Why C28 fails: a call that returned an error of addBookCategories or of
\* Commit has left the book without the associations it had.
AssociationsLost ==
    \E k \in 1..Len(bookLog) :
        /\ ~bookLog[k].ok /\ bookLog[k].step \in {"add", "commit"}
        /\ bookLog[k].before.links # {}
        /\ bookLog[k].after.links = {}
        /\ bookLog[k].after.books = bookLog[k].before.books

\* the refresh tokens RefreshToken accepts for user u at the present time
AcceptedTokens(u) == {r \in 1..minted : u \in GetUserByRefreshToken(r, clock)}

\* C29: refresh tokens are single-use and unique per user: at any time at
\* most one refresh token of a user is accepted by RefreshToken, a successful
\* Login replaces the token of an earlier Login, and once a RefreshToken call
\* has returned success no later RefreshToken call is given a user for the
\* token that was presented
C29_SingleUse ==
    /\ \A u \in Users : Cardinality(AcceptedTokens(u)) <= 1
    /\ \A i, k, j \in 1..Len(authLog) :
           ( /\ i < k /\ k < j
             /\ authLog[i].op = "Login" /\ authLog[i].ok
             /\ authLog[k].op = "Login" /\ authLog[k].ok
             /\ authLog[k].user = authLog[i].user
             /\ authLog[j].op = "RefreshToken"
             /\ authLog[j].refresh = authLog[i].refresh )
           => ~authLog[j].ok
    /\ \A e \in refreshed : \A j \in 1..Len(authLog) :
           ( /\ j > e.after
             /\ authLog[j].op = "RefreshToken"
             /\ authLog[j].refresh = e.refresh )
           => ~authLog[j].ok

\* the same for the calls whose new refresh token was stored: the presented
\* token is accepted by no later call
SingleUseWhenStored ==
    /\ \A u \in Users : Cardinality(AcceptedTokens(u)) <= 1
    /\ \A e \in refreshed : \A j \in 1..Len(authLog) :
           ( /\ e.stored
             /\ j > e.after
             /\ authLog[j].op = "RefreshToken"
             /\ authLog[j].refresh = e.refresh )
           => ~authLog[j].ok

\* a RefreshToken call returned success, its store having failed, and the
\* token it was given is still accepted
PresentedTokenStillAccepted ==
    \E e \in refreshed : ~e.stored /\ GetUserByRefreshToken(e.refresh, clock) # {}

\* the tokens a bucket holds after a refill at time t, written out: the
\* tokens it held and those of the time since its last refill, and no more
\* than its capacity
Replenished(bucket, t) ==
    LET grown == bucket.tokens + (t - bucket.lastRefil) * bucket.rate
    IN  IF grown > bucket.capacity * One THEN bucket.capacity * One ELSE grown

\* the time of the latest Allow call, or of the construction before any
LatestAllow == IF log = << >> THEN 0 ELSE log[Len(log)].at

\* C30: refillBucket(bucket, now) sets lastRefil to now and tokens to
\* min(capacity, tokens + elapsed * rate): a call of Allow leaves the global
\* bucket, and the client's bucket it found and went on to, refilled to the
\* time of the call, with the replenished tokens less the token it charged;
\* with no time elapsed the tokens are those held before, less the charge;
\* the lastRefil of a bucket never decreases and is never later than the time
\* of the latest Allow call
C30_Refill ==
    /\ [](/\ globalBucket.lastRefil <= LatestAllow
          /\ \A i \in DOMAIN ipLimits : ipLimits[i].lastRefil <= LatestAllow)
    /\ [][ /\ globalBucket'.lastRefil >= globalBucket.lastRefil
           /\ \A i \in DOMAIN ipLimits \cap DOMAIN ipLimits' :
                  ipLimits'[i].lastRefil >= ipLimits[i].lastRefil
           /\ Len(log') > Len(log) =>
                  LET e == log'[Len(log')]
                      g == Replenished(globalBucket, e.at)
                  IN  /\ globalBucket'.lastRefil = e.at
                      /\ e.global = g
                      /\ globalBucket'.tokens = IF e.out = "global" THEN g ELSE g - One
                      /\ e.at = globalBucket.lastRefil =>
                             globalBucket'.tokens \in {globalBucket.tokens,
                                                       globalBucket.tokens - One}
                      /\ (e.out # "global" /\ e.ip \in DOMAIN ipLimits) =>
                             LET c == Replenished(ipLimits[e.ip], e.at)
                             IN  /\ ipLimits'[e.ip].lastRefil = e.at
                                 /\ ipLimits'[e.ip].tokens =
                                        IF e.out = "ok" THEN c - One ELSE c
                                 /\ e.at = ipLimits[e.ip].lastRefil =>
                                        ipLimits'[e.ip].tokens \in
                                            {ipLimits[e.ip].tokens,
                                             ipLimits[e.ip].tokens - One}
         ]_vars

\* the latest call of Allow came later than the one before it and found the
\* client's bucket, which it left refilled to its time and below capacity
C30_Witness ==
    /\ Len(log) >= 2
    /\ LET e == log[Len(log)]
       IN  /\ ~e.created
           /\ e.out = "ok"
           /\ e.at > log[Len(log) - 1].at
           /\ e.ip \in DOMAIN ipLimits
           /\ ipLimits[e.ip].lastRefil = e.at
           /\ ipLimits[e.ip].tokens > 0
           /\ ipLimits[e.ip].tokens < ipLimits[e.ip].capacity * One

====
